---- MODULE Spec2Model ----
(***************************************************************************)
(* jwt-attacker: the wordlist brute-force cracker (jwt_attacker/crack.py)  *)
(* with the token codec and wordlist reader it uses                        *)
(* (jwt_attacker/utils.py) and the forger that produces its inputs         *)
(* (jwt_attacker/forge.py).                                                *)
(*                                                                         *)
(* Strings are sequences of characters.  A token is the sequence of its    *)
(* '.'-separated segments.  A segment is described by the deepest layer    *)
(* its text decodes to (base64url -> UTF-8 -> JSON), or by the HMAC it is  *)
(* the base64url encoding of.  HMAC is collision free: a MAC is the triple *)
(* of hash, key and signed message.                                        *)
(***************************************************************************)
EXTENDS Integers, Sequences, FiniteSets, TLC

(***************************************************************************)
(* Bounds of the model                                                     *)
(***************************************************************************)
MaxLineLen == 2        \* longest wordlist line, in characters
MaxWords == 2          \* most lines of a wordlist file

Chars == {" ", "a"}

IsSpace(c) == c = " "

StringsUpTo(n) == UNION {[1..k -> Chars] : k \in 0..n}

(***************************************************************************)
(* str.strip()                                                             *)
(***************************************************************************)
RECURSIVE LStrip(_)
LStrip(s) ==
    IF s = <<>> THEN <<>>
    ELSE IF IsSpace(Head(s)) THEN LStrip(Tail(s)) ELSE s

RECURSIVE RStrip(_)
RStrip(s) ==
    IF s = <<>> THEN <<>>
    ELSE IF IsSpace(s[Len(s)]) THEN RStrip(SubSeq(s, 1, Len(s) - 1)) ELSE s

\* a plausible slip: only the line terminator side is trimmed
StripRightOnly(s) == RStrip(s)

Strip(s) == RStrip(LStrip(s))

(***************************************************************************)
(* The wordlist file: missing, unreadable, or a sequence of lines          *)
(***************************************************************************)
MissingFile == [status |-> "missing", lines |-> <<>>]
UnreadableFile == [status |-> "unreadable", lines |-> <<>>]
TextFile(ls) == [status |-> "ok", lines |-> ls]

Files ==
    {MissingFile, UnreadableFile}
    \cup {TextFile(ls) : ls \in UNION {[1..n -> StringsUpTo(MaxLineLen)] : n \in 0..MaxWords}}

\* a plausible slip: blank lines are stripped but kept
ReadWordlistKeepBlank(f) ==
    IF f.status # "ok" THEN <<>>
    ELSE [k \in 1..Len(f.lines) |-> Strip(f.lines[k])]

\* read_wordlist: [line.strip() for line in f if line.strip()], [] on any error
ReadWordlist(f) ==
    IF f.status # "ok" THEN <<>>
    ELSE LET truthy(l) == Strip(l) # <<>>
             kept == SelectSeq(f.lines, truthy)
         IN [k \in 1..Len(kept) |-> Strip(kept[k])]

\* faulty variant: the error paths print nothing
ReadWordlistPrintsNothing(f) == <<>>

\* what read_wordlist prints on its error paths
ReadWordlistPrints(f) ==
    IF f.status = "missing" THEN <<"wordlist_not_found">>
    ELSE IF f.status = "unreadable" THEN <<"wordlist_read_error">>
    ELSE <<>>

(***************************************************************************)
(* JSON values and JSON text                                               *)
(***************************************************************************)
\* Python's None; also what json.loads gives for the text "null"
PyNone == [t |-> "None", m |-> <<>>]
JArray == [t |-> "array", m |-> <<>>]
JObject(m) == [t |-> "object", m |-> m]

IsDict(v) == v.t = "object"

JsonText(v) == [json |-> TRUE, v |-> v]
NotJsonText == [json |-> FALSE, v |-> PyNone]

\* json.loads: the parsed value, or an exception on text that is not JSON
JsonLoads(text) ==
    IF text.json THEN [ok |-> TRUE, v |-> text.v] ELSE [ok |-> FALSE, v |-> PyNone]

(***************************************************************************)
(* Token segments                                                          *)
(***************************************************************************)
NoMsg == <<>>

\* the base64url encoding of the UTF-8 JSON text of v
JsonSeg(v) == [layer |-> "json", v |-> v, alg |-> "", key |-> <<>>, msg |-> NoMsg]
\* a segment that fails at the named decoding layer, or the empty segment
RawSeg(layer) == [layer |-> layer, v |-> PyNone, alg |-> "", key |-> <<>>, msg |-> NoMsg]
EmptySeg == RawSeg("empty")

\* the base64url encoding of HMAC-<alg>(key, msg)
HmacSign(alg, key, msg) ==
    [layer |-> "mac", v |-> PyNone, alg |-> alg, key |-> key, msg |-> msg]

\* base64url_decode raises (binascii.Error) on text that is not base64
Base64UrlDecodes(seg) == seg.layer # "notb64"

\* bytes.decode('utf-8') of the decoded segment; MAC bytes are not text
Utf8Decodes(seg) == Base64UrlDecodes(seg) /\ seg.layer \notin {"notutf8", "mac"}

\* the JSON text carried by a segment (the empty string is not JSON)
SegText(seg) == IF seg.layer = "json" THEN JsonText(seg.v) ELSE NotJsonText

\* faulty variant: a segment that is not JSON is read as an empty object
DecodeSegmentLenient(token, n) ==
    IF Len(token) # 3 THEN PyNone
    ELSE IF token[n].layer = "json" THEN token[n].v ELSE JObject(<<>>)

\* decode_jwt_header / decode_jwt_payload on segment n: None unless the
\* token has three parts and part n is base64url of UTF-8 JSON
DecodeSegment(token, n) ==
    IF Len(token) # 3 THEN PyNone
    ELSE IF ~Base64UrlDecodes(token[n]) THEN PyNone
    ELSE IF ~Utf8Decodes(token[n]) THEN PyNone
    ELSE IF ~JsonLoads(SegText(token[n])).ok THEN PyNone
    ELSE JsonLoads(SegText(token[n])).v

DecodeJwtHeader(token) == DecodeSegment(token, 1)
DecodeJwtPayload(token) == DecodeSegment(token, 2)

\* faulty variant: only the segment count is checked
ValidateJwtFormatCountOnly(token) == Len(token) = 3

ValidateJwtFormat(token) ==
    IF Len(token) # 3 THEN FALSE
    ELSE DecodeJwtHeader(token) # PyNone /\ DecodeJwtPayload(token) # PyNone

(***************************************************************************)
(* The codec on text: base64 on bytes and characters, as utils.py calls    *)
(* the standard library.  A byte is a number in 0..255, a text a sequence  *)
(* of one-character strings.                                               *)
(***************************************************************************)
\* stands for every character beyond ASCII
NonAscii == "U+0080.."

\* the base64 alphabet, digit 0 first
B64Alphabet ==
    <<
       "A", "B", "C", "D", "E", "F", "G", "H", "I", "J", "K", "L", "M", "N", "O", "P",
       "Q", "R", "S", "T", "U", "V", "W", "X", "Y", "Z", "a", "b", "c", "d", "e", "f",
       "g", "h", "i", "j", "k", "l", "m", "n", "o", "p", "q", "r", "s", "t", "u", "v",
       "w", "x", "y", "z", "0", "1", "2", "3", "4", "5", "6", "7", "8", "9", "+", "/"
    >>

IsB64Char(c) == \E k \in 1..64 : B64Alphabet[k] = c

\* the 6-bit value of an alphabet character
B64Value(c) == (CHOOSE k \in 1..64 : B64Alphabet[k] = c) - 1

B64Char(n) == B64Alphabet[n + 1]

\* base64.b64encode: each 3 bytes give 4 characters of 6 bits; a last group
\* of 1 or 2 bytes gives 2 or 3 characters and '=' up to 4
B64Encode(bs) ==
    LET n == Len(bs)
        byte(k) == IF k <= n THEN bs[k] ELSE 0
        sextet(g, r) ==
            IF r = 1 THEN byte(3 * g + 1) \div 4
            ELSE IF r = 2 THEN (byte(3 * g + 1) % 4) * 16 + (byte(3 * g + 2) \div 16)
            ELSE IF r = 3 THEN (byte(3 * g + 2) % 16) * 4 + (byte(3 * g + 3) \div 64)
            ELSE byte(3 * g + 3) % 64
        \* characters that carry data: 4 per full group, 2 or 3 for the rest
        data == 4 * (n \div 3) + (IF n % 3 = 0 THEN 0 ELSE (n % 3) + 1)
    IN [k \in 1..(4 * ((n + 2) \div 3)) |->
           IF k > data THEN "=" ELSE B64Char(sextet((k - 1) \div 4, ((k - 1) % 4) + 1))]

\* str.replace for one character
Replace(s, a, b) == [k \in 1..Len(s) |-> IF s[k] = a THEN b ELSE s[k]]

\* str.rstrip for one character
RECURSIVE RStripChar(_, _)
RStripChar(s, c) ==
    IF s = <<>> THEN <<>>
    ELSE IF s[Len(s)] = c THEN RStripChar(SubSeq(s, 1, Len(s) - 1), c) ELSE s

\* faulty variant: the padding is kept
Base64UrlEncodePadded(data) == Replace(Replace(B64Encode(data), "+", "-"), "/", "_")

\* base64url_encode
Base64UrlEncode(data) ==
    RStripChar(Replace(Replace(B64Encode(data), "+", "-"), "/", "_"), "=")

Raised == [ok |-> FALSE, bytes |-> <<>>]
Returned(bs) == [ok |-> TRUE, bytes |-> bs]

\* binascii.a2b_base64 without strict mode.  Characters outside the
\* alphabet are skipped.  A '=' ends the input when it completes the quad:
\* behind 3 characters of a quad at once, behind 2 when it is the second '='
\* since the last character.  Input that ends inside a quad raises
\* binascii.Error; the bits left over behind a completing pad are dropped.
A2bBase64(s) ==
    LET isData(k) == IsB64Char(s[k])
        before(k) == Cardinality({j \in 1..(k - 1) : isData(j)})
        padBehindLast(k) ==
            \E j \in 1..(k - 1) :
                s[j] = "=" /\ \A m \in (j + 1)..(k - 1) : ~isData(m)
        completes(k) ==
            /\ s[k] = "="
            /\ \/ before(k) % 4 = 3
               \/ before(k) % 4 = 2 /\ padBehindLast(k)
        stops == {k \in 1..Len(s) : completes(k)}
        stop == IF stops = {} THEN Len(s) + 1
                ELSE CHOOSE k \in stops : \A j \in stops : k <= j
        chars == SelectSeq(SubSeq(s, 1, stop - 1), IsB64Char)
        v(k) == B64Value(chars[k])
        octet(g, r) ==
            IF r = 1 THEN v(4 * g + 1) * 4 + (v(4 * g + 2) \div 16)
            ELSE IF r = 2 THEN (v(4 * g + 2) % 16) * 16 + (v(4 * g + 3) \div 4)
            ELSE (v(4 * g + 3) % 4) * 64 + v(4 * g + 4)
    IN IF stops = {} /\ Len(chars) % 4 # 0 THEN Raised
       ELSE Returned([k \in 1..((Len(chars) * 3) \div 4) |->
                         octet((k - 1) \div 3, ((k - 1) % 3) + 1)])

\* base64.b64decode(s) of a str: ValueError unless all of it is ASCII
B64Decode(s) ==
    IF \E k \in 1..Len(s) : s[k] = NonAscii THEN Raised
    ELSE A2bBase64(s)

Repeat(c, n) == [k \in 1..n |-> c]

\* faulty variant: the stripped padding is not restored
Base64UrlDecodeNoPad(data) == B64Decode(Replace(Replace(data, "-", "+"), "_", "/"))

\* faulty variant: the URL-safe characters are not mapped back
Base64UrlDecodeNoMap(data) ==
    B64Decode(IF Len(data) % 4 # 0 THEN data \o Repeat("=", 4 - (Len(data) % 4)) ELSE data)

\* base64url_decode: re-pad to a multiple of 4, map '-' and '_' back, decode
Base64UrlDecode(data) ==
    LET missing_padding == Len(data) % 4
        padded == IF missing_padding # 0
                  THEN data \o Repeat("=", 4 - missing_padding)
                  ELSE data
    IN B64Decode(Replace(Replace(padded, "-", "+"), "_", "/"))

(***************************************************************************)
(* Text and bytes: str.encode('utf-8') and bytes.decode('utf-8').  The     *)
(* characters of the model are the 128 of ASCII (a control character is    *)
(* written ^X, the backquote "grave") and NonAscii, which stands for every  *)
(* character beyond.                                                       *)
(***************************************************************************)
\* character of code 0 first
Ascii ==
    <<
       "^@", "^A", "^B", "^C", "^D", "^E", "^F", "^G", "^H", "^I", "^J", "^K",
       "^L", "^M", "^N", "^O", "^P", "^Q", "^R", "^S", "^T", "^U", "^V", "^W",
       "^X", "^Y", "^Z", "^[", "^\\", "^]", "^^", "^_", " ", "!", "\"", "#",
       "$", "%", "&", "'", "(", ")", "*", "+", ",", "-", ".", "/",
       "0", "1", "2", "3", "4", "5", "6", "7", "8", "9", ":", ";",
       "<", "=", ">", "?", "@", "A", "B", "C", "D", "E", "F", "G",
       "H", "I", "J", "K", "L", "M", "N", "O", "P", "Q", "R", "S",
       "T", "U", "V", "W", "X", "Y", "Z", "[", "\\", "]", "^", "_",
       "grave", "a", "b", "c", "d", "e", "f", "g", "h", "i", "j", "k",
       "l", "m", "n", "o", "p", "q", "r", "s", "t", "u", "v", "w",
       "x", "y", "z", "{", "|", "}", "~", "^?"
    >>


Chr(n) == Ascii[n + 1]
Ord(c) == (CHOOSE k \in 1..128 : Ascii[k] = c) - 1

\* str.encode('utf-8'); NonAscii is encoded as its first character, U+0080
RECURSIVE Utf8EncodeFrom(_, _)
Utf8EncodeFrom(text, k) ==
    IF k > Len(text) THEN <<>>
    ELSE (IF text[k] = NonAscii THEN <<194, 128>> ELSE <<Ord(text[k])>>)
         \o Utf8EncodeFrom(text, k + 1)

Utf8Encode(text) ==
    IF \A k \in 1..Len(text) : text[k] # NonAscii
    THEN [k \in 1..Len(text) |-> Ord(text[k])]
    ELSE Utf8EncodeFrom(text, 1)

NoText == [ok |-> FALSE, text |-> <<>>]
Text(t) == [ok |-> TRUE, text |-> t]

\* the number of continuation bytes a lead byte announces, -1 for a byte
\* that cannot start a character
Utf8Following(b) ==
    IF b < 128 THEN 0
    ELSE IF b >= 194 /\ b <= 223 THEN 1
    ELSE IF b >= 224 /\ b <= 239 THEN 2
    ELSE IF b >= 240 /\ b <= 244 THEN 3
    ELSE -1

\* the range of the first continuation byte after a lead byte
Utf8SecondOk(lead, b) ==
    IF lead = 224 THEN b >= 160 /\ b <= 191
    ELSE IF lead = 237 THEN b >= 128 /\ b <= 159
    ELSE IF lead = 240 THEN b >= 144 /\ b <= 191
    ELSE IF lead = 244 THEN b >= 128 /\ b <= 143
    ELSE b >= 128 /\ b <= 191

\* bytes.decode('utf-8'): UnicodeDecodeError on an ill-formed sequence
RECURSIVE Utf8DecodeFrom(_, _, _)
Utf8DecodeFrom(bs, k, out) ==
    IF k > Len(bs) THEN Text(out)
    ELSE LET n == Utf8Following(bs[k])
         IN IF n = 0 THEN Utf8DecodeFrom(bs, k + 1, Append(out, Chr(bs[k])))
            ELSE IF n = -1 \/ k + n > Len(bs) THEN NoText
            ELSE IF ~Utf8SecondOk(bs[k], bs[k + 1]) THEN NoText
            ELSE IF \E j \in (k + 2)..(k + n) : bs[j] < 128 \/ bs[j] > 191 THEN NoText
            ELSE Utf8DecodeFrom(bs, k + n + 1, Append(out, NonAscii))

Utf8Decode(bs) ==
    IF \A k \in 1..Len(bs) : bs[k] < 128
    THEN Text([k \in 1..Len(bs) |-> Chr(bs[k])])
    ELSE Utf8DecodeFrom(bs, 1, <<>>)

(***************************************************************************)
(* Python values and JSON text: json.loads and json.dumps.  A value is a   *)
(* record of one shape: its type, and the characters, the number or the    *)
(* items it holds.  A dict keeps its keys in insertion order.              *)
(***************************************************************************)
JVal(t, s, n, kv) == [t |-> t, s |-> s, n |-> n, kv |-> kv]

Item(k, v) == [k |-> k, v |-> v]

NoneValue == JVal("None", <<>>, 0, <<>>)
JBool(b) == JVal("bool", <<>>, IF b THEN 1 ELSE 0, <<>>)
JInt(n) == JVal("int", <<>>, n, <<>>)
\* a float is kept as the text of its literal
JFloat(lit) == JVal("float", lit, 0, <<>>)
JStr(s) == JVal("str", s, 0, <<>>)
JList(items) == JVal("list", <<>>, 0, [k \in 1..Len(items) |-> Item(<<>>, items[k])])
JDict(kv) == JVal("dict", <<>>, 0, kv)

\* bool(v) of Python
Truthy(v) ==
    IF v.t = "None" THEN FALSE
    ELSE IF v.t \in {"bool", "int"} THEN v.n # 0
    ELSE IF v.t = "str" THEN v.s # <<>>
    ELSE IF v.t \in {"list", "dict"} THEN v.kv # <<>>
    ELSE \E k \in 1..Len(v.s) : v.s[k] \in {"1", "2", "3", "4", "5", "6", "7", "8", "9", "N", "I"}

DictHas(kv, key) == \E j \in 1..Len(kv) : kv[j].k = key

DictGet(kv, key) == kv[CHOOSE j \in 1..Len(kv) : kv[j].k = key].v

\* d[key] = v: an existing key keeps its place
DictSet(kv, key, v) ==
    IF DictHas(kv, key)
    THEN [j \in 1..Len(kv) |-> IF kv[j].k = key THEN Item(key, v) ELSE kv[j]]
    ELSE Append(kv, Item(key, v))

IsDigit(c) == c \in {"0", "1", "2", "3", "4", "5", "6", "7", "8", "9"}
DigitValue(c) == Ord(c) - 48

HexDigits == <<"0", "1", "2", "3", "4", "5", "6", "7", "8", "9", "a", "b", "c", "d", "e", "f">>
UpperHex == <<"0", "1", "2", "3", "4", "5", "6", "7", "8", "9", "A", "B", "C", "D", "E", "F">>
IsHex(c) == \E k \in 1..16 : HexDigits[k] = c \/ UpperHex[k] = c
HexValue(c) == (CHOOSE k \in 1..16 : HexDigits[k] = c \/ UpperHex[k] = c) - 1

\* space, tab, line feed, carriage return
IsWs(c) == c \in {" ", "^I", "^J", "^M"}

IsControl(c) == \E n \in 0..31 : Chr(n) = c

RECURSIVE SkipWs(_, _)
SkipWs(s, k) == IF k <= Len(s) /\ IsWs(s[k]) THEN SkipWs(s, k + 1) ELSE k

RECURSIVE DigitsEnd(_, _)
DigitsEnd(s, k) == IF k <= Len(s) /\ IsDigit(s[k]) THEN DigitsEnd(s, k + 1) ELSE k

RECURSIVE DecValue(_)
DecValue(ds) ==
    IF ds = <<>> THEN 0
    ELSE DecValue(SubSeq(ds, 1, Len(ds) - 1)) * 10 + DigitValue(ds[Len(ds)])

StartsWith(s, k, lit) ==
    /\ k + Len(lit) - 1 <= Len(s)
    /\ \A j \in 1..Len(lit) : s[k + j - 1] = lit[j]

\* the outcome of a scanner: the value and the position behind it
PFail == [ok |-> FALSE, v |-> NoneValue, k |-> 0]
POk(v, k) == [ok |-> TRUE, v |-> v, k |-> k]

\* py_scanstring (strict) from behind the opening quote
RECURSIVE ParseString(_, _, _)
ParseString(s, k, acc) ==
    IF k > Len(s) THEN PFail
    ELSE IF s[k] = "\"" THEN POk(JStr(acc), k + 1)
    ELSE IF s[k] = "\\"
    THEN IF k + 1 > Len(s) THEN PFail
         ELSE LET e == s[k + 1]
              IN IF e \in {"\"", "\\", "/"} THEN ParseString(s, k + 2, Append(acc, e))
                 ELSE IF e = "b" THEN ParseString(s, k + 2, Append(acc, "^H"))
                 ELSE IF e = "f" THEN ParseString(s, k + 2, Append(acc, "^L"))
                 ELSE IF e = "n" THEN ParseString(s, k + 2, Append(acc, "^J"))
                 ELSE IF e = "r" THEN ParseString(s, k + 2, Append(acc, "^M"))
                 ELSE IF e = "t" THEN ParseString(s, k + 2, Append(acc, "^I"))
                 ELSE IF e = "u" /\ k + 5 <= Len(s) /\ \A j \in 2..5 : IsHex(s[k + j])
                 THEN LET code == HexValue(s[k + 2]) * 4096 + HexValue(s[k + 3]) * 256
                                  + HexValue(s[k + 4]) * 16 + HexValue(s[k + 5])
                      IN ParseString(s, k + 6,
                                     Append(acc, IF code < 128 THEN Chr(code) ELSE NonAscii))
                 ELSE PFail
    ELSE IF IsControl(s[k]) THEN PFail
    ELSE ParseString(s, k + 1, Append(acc, s[k]))

\* NUMBER_RE: -?(0|[1-9]\d*)(\.\d+)?([eE][-+]?\d+)?
ParseNumber(s, k) ==
    LET st == IF s[k] = "-" THEN k + 1 ELSE k
    IN IF st > Len(s) \/ ~IsDigit(s[st]) THEN PFail
       ELSE LET intEnd == IF s[st] = "0" THEN st + 1 ELSE DigitsEnd(s, st)
                fracEnd == IF intEnd + 1 <= Len(s) /\ s[intEnd] = "." /\ IsDigit(s[intEnd + 1])
                           THEN DigitsEnd(s, intEnd + 1)
                           ELSE intEnd
                expAt == IF fracEnd + 1 <= Len(s) /\ s[fracEnd] \in {"e", "E"}
                         THEN IF s[fracEnd + 1] \in {"+", "-"} THEN fracEnd + 2 ELSE fracEnd + 1
                         ELSE 0
                expEnd == IF expAt # 0 /\ expAt <= Len(s) /\ IsDigit(s[expAt])
                          THEN DigitsEnd(s, expAt)
                          ELSE fracEnd
                magnitude == DecValue(SubSeq(s, st, intEnd - 1))
            IN IF expEnd # intEnd THEN POk(JFloat(SubSeq(s, k, expEnd - 1)), expEnd)
               ELSE POk(JInt(IF st = k THEN magnitude ELSE 0 - magnitude), intEnd)

\* scan_once, JSONObject and JSONArray of json.decoder
RECURSIVE ParseValue(_, _)
RECURSIVE ParseMembers(_, _, _)
RECURSIVE ParseElements(_, _, _)
ParseValue(s, k) ==
    IF k > Len(s) THEN PFail
    ELSE IF s[k] = "\"" THEN ParseString(s, k + 1, <<>>)
    ELSE IF s[k] = "{"
    THEN LET j == SkipWs(s, k + 1)
         IN IF j <= Len(s) /\ s[j] = "}" THEN POk(JDict(<<>>), j + 1)
            ELSE ParseMembers(s, j, <<>>)
    ELSE IF s[k] = "["
    THEN LET j == SkipWs(s, k + 1)
         IN IF j <= Len(s) /\ s[j] = "]" THEN POk(JList(<<>>), j + 1)
            ELSE ParseElements(s, j, <<>>)
    ELSE IF StartsWith(s, k, <<"n", "u", "l", "l">>) THEN POk(NoneValue, k + 4)
    ELSE IF StartsWith(s, k, <<"t", "r", "u", "e">>) THEN POk(JBool(TRUE), k + 4)
    ELSE IF StartsWith(s, k, <<"f", "a", "l", "s", "e">>) THEN POk(JBool(FALSE), k + 5)
    ELSE IF s[k] = "-" \/ IsDigit(s[k])
    THEN IF ParseNumber(s, k).ok THEN ParseNumber(s, k)
         ELSE IF StartsWith(s, k, <<"-", "I", "n", "f", "i", "n", "i", "t", "y">>)
         THEN POk(JFloat(SubSeq(s, k, k + 8)), k + 9)
         ELSE PFail
    ELSE IF StartsWith(s, k, <<"N", "a", "N">>) THEN POk(JFloat(SubSeq(s, k, k + 2)), k + 3)
    ELSE IF StartsWith(s, k, <<"I", "n", "f", "i", "n", "i", "t", "y">>)
    THEN POk(JFloat(SubSeq(s, k, k + 7)), k + 8)
    ELSE PFail

ParseMembers(s, k, acc) ==
    IF k > Len(s) \/ s[k] # "\"" THEN PFail
    ELSE LET key == ParseString(s, k + 1, <<>>)
         IN IF ~key.ok THEN PFail
            ELSE LET colon == SkipWs(s, key.k)
                 IN IF colon > Len(s) \/ s[colon] # ":" THEN PFail
                    ELSE LET val == ParseValue(s, SkipWs(s, colon + 1))
                         IN IF ~val.ok THEN PFail
                            ELSE LET pairs == DictSet(acc, key.v.s, val.v)
                                     e == SkipWs(s, val.k)
                                 IN IF e > Len(s) THEN PFail
                                    ELSE IF s[e] = "}" THEN POk(JDict(pairs), e + 1)
                                    ELSE IF s[e] = ","
                                    THEN ParseMembers(s, SkipWs(s, e + 1), pairs)
                                    ELSE PFail

ParseElements(s, k, acc) ==
    LET val == ParseValue(s, k)
    IN IF ~val.ok THEN PFail
       ELSE LET items == Append(acc, val.v)
                e == SkipWs(s, val.k)
            IN IF e > Len(s) THEN PFail
               ELSE IF s[e] = "]" THEN POk(JList(items), e + 1)
               ELSE IF s[e] = "," THEN ParseElements(s, SkipWs(s, e + 1), items)
               ELSE PFail

NotLoaded == [ok |-> FALSE, v |-> NoneValue]
Loaded(v) == [ok |-> TRUE, v |-> v]

\* json.loads(text): JSONDecodeError unless the text is one JSON value
\* between optional whitespace
JsonLoadsText(text) ==
    LET r == ParseValue(text, SkipWs(text, 1))
    IN IF r.ok /\ SkipWs(text, r.k) > Len(text) THEN Loaded(r.v) ELSE NotLoaded

RECURSIVE IntText(_)
IntText(n) ==
    IF n < 0 THEN <<"-">> \o IntText(0 - n)
    ELSE IF n < 10 THEN <<Chr(48 + n)>>
    ELSE IntText(n \div 10) \o <<Chr(48 + (n % 10))>>

\* ESCAPE_ASCII of json.encoder for an ASCII character
EscapeChar(c) ==
    IF c = "\"" THEN <<"\\", "\"">>
    ELSE IF c = "\\" THEN <<"\\", "\\">>
    ELSE IF c = "^J" THEN <<"\\", "n">>
    ELSE IF c = "^M" THEN <<"\\", "r">>
    ELSE IF c = "^I" THEN <<"\\", "t">>
    ELSE IF c = "^H" THEN <<"\\", "b">>
    ELSE IF c = "^L" THEN <<"\\", "f">>
    ELSE IF c = NonAscii THEN <<"\\", "u", "0", "0", "8", "0">>
    ELSE IF IsControl(c) \/ c = "^?"
    THEN <<"\\", "u", "0", "0", HexDigits[(Ord(c) \div 16) + 1], HexDigits[(Ord(c) % 16) + 1]>>
    ELSE <<c>>

RECURSIVE EscapeText(_)
EscapeText(s) ==
    IF s = <<>> THEN <<>> ELSE EscapeChar(s[1]) \o EscapeText(SubSeq(s, 2, Len(s)))

Quoted(s) == <<"\"">> \o EscapeText(s) \o <<"\"">>

\* json.dumps(v, separators=(',', ':'))
RECURSIVE JsonDumps(_)
RECURSIVE DumpItems(_, _, _)
JsonDumps(v) ==
    IF v.t = "None" THEN <<"n", "u", "l", "l">>
    ELSE IF v.t = "bool"
    THEN (IF v.n = 1 THEN <<"t", "r", "u", "e">> ELSE <<"f", "a", "l", "s", "e">>)
    ELSE IF v.t = "int" THEN IntText(v.n)
    ELSE IF v.t = "float" THEN v.s
    ELSE IF v.t = "str" THEN Quoted(v.s)
    ELSE IF v.t = "list" THEN <<"[">> \o DumpItems(v.kv, 1, FALSE) \o <<"]">>
    ELSE <<"{">> \o DumpItems(v.kv, 1, TRUE) \o <<"}">>

DumpItems(kv, k, keyed) ==
    IF k > Len(kv) THEN <<>>
    ELSE (IF k > 1 THEN <<",">> ELSE <<>>)
         \o (IF keyed THEN Quoted(kv[k].k) \o <<":">> ELSE <<>>)
         \o JsonDumps(kv[k].v)
         \o DumpItems(kv, k + 1, keyed)

(***************************************************************************)
(* The token codec of utils.py on token text                               *)
(***************************************************************************)
\* str.split(sep) for a one-character separator: the pieces between
\* consecutive separators, one more than there are separators
Split(s, sep) ==
    LET at == {k \in 1..Len(s) : s[k] = sep}
        \* the position of the j-th separator; 0 and Len(s) + 1 bound the text
        cut(j) == IF j = 0 THEN 0
                  ELSE IF j > Cardinality(at) THEN Len(s) + 1
                  ELSE CHOOSE k \in at : Cardinality({d \in at : d < k}) = j - 1
    IN [j \in 1..(Cardinality(at) + 1) |-> SubSeq(s, cut(j - 1) + 1, cut(j) - 1)]

\* faulty variant: a segment is decoded whatever the number of segments
DecodePartAnyCount(jwtText, n) ==
    LET parts == Split(jwtText, ".")
    IN IF Len(parts) < n THEN NoneValue
       ELSE LET data == Base64UrlDecode(parts[n])
            IN IF ~data.ok THEN NoneValue
               ELSE IF ~Utf8Decode(data.bytes).ok THEN NoneValue
               ELSE IF ~JsonLoadsText(Utf8Decode(data.bytes).text).ok THEN NoneValue
               ELSE JsonLoadsText(Utf8Decode(data.bytes).text).v

\* decode_jwt_header (n = 1) and decode_jwt_payload (n = 2): None unless the
\* token has three parts; else json.loads(base64url_decode(part).decode('utf-8')),
\* None on any exception
DecodePart(jwtText, n) ==
    LET parts == Split(jwtText, ".")
    IN IF Len(parts) # 3 THEN NoneValue
       ELSE LET data == Base64UrlDecode(parts[n])
            IN IF ~data.ok THEN NoneValue
               ELSE IF ~Utf8Decode(data.bytes).ok THEN NoneValue
               ELSE IF ~JsonLoadsText(Utf8Decode(data.bytes).text).ok THEN NoneValue
               ELSE JsonLoadsText(Utf8Decode(data.bytes).text).v

DecodeJwtHeaderText(jwtText) == DecodePart(jwtText, 1)
DecodeJwtPayloadText(jwtText) == DecodePart(jwtText, 2)

\* faulty variant: the payload is not looked at
ValidateJwtFormatTextHeaderOnly(jwtText) ==
    IF Len(Split(jwtText, ".")) # 3 THEN FALSE
    ELSE DecodeJwtHeaderText(jwtText).t # "None"

\* validate_jwt_format: three parts, and neither decoder returned None
ValidateJwtFormatText(jwtText) ==
    IF Len(Split(jwtText, ".")) # 3 THEN FALSE
    ELSE DecodeJwtHeaderText(jwtText).t # "None" /\ DecodeJwtPayloadText(jwtText).t # "None"

(***************************************************************************)
(* create_alg_none_jwt(payload, custom_header)                             *)
(***************************************************************************)
\* a return value: not returned yet, None, or a token text
NotCalled == [done |-> FALSE, none |-> TRUE, text |-> <<>>]
RetNone == [done |-> TRUE, none |-> TRUE, text |-> <<>>]
RetText(t) == [done |-> TRUE, none |-> FALSE, text |-> t]

KeyAlg == <<"a", "l", "g">>
KeyTyp == <<"t", "y", "p">>
StrNone == JStr(<<"n", "o", "n", "e">>)
StrJWT == JStr(<<"J", "W", "T">>)

\* faulty variant: an alg the caller supplied is kept
AlgNoneHeaderKeepAlg(custom_header) ==
    LET start == IF Truthy(custom_header) THEN custom_header.kv ELSE <<>>
        withAlg == IF DictHas(start, KeyAlg) THEN start ELSE DictSet(start, KeyAlg, StrNone)
    IN IF DictHas(withAlg, KeyTyp) THEN withAlg ELSE DictSet(withAlg, KeyTyp, StrJWT)

\* faulty variant: typ is set to JWT whatever the caller supplied
AlgNoneHeaderForceTyp(custom_header) ==
    LET start == IF Truthy(custom_header) THEN custom_header.kv ELSE <<>>
    IN DictSet(DictSet(start, KeyAlg, StrNone), KeyTyp, StrJWT)

\* header = custom_header or {}; header['alg'] = 'none'; typ defaults to JWT
AlgNoneHeader(custom_header) ==
    LET start == IF Truthy(custom_header) THEN custom_header.kv ELSE <<>>
        withAlg == DictSet(start, KeyAlg, StrNone)
    IN IF DictHas(withAlg, KeyTyp) THEN withAlg ELSE DictSet(withAlg, KeyTyp, StrJWT)

\* base64url_encode(json.dumps(v, separators=(',', ':')).encode('utf-8'))
EncodePart(v) == Base64UrlEncode(Utf8Encode(JsonDumps(v)))

\* the token, or None when the payload is not JSON
CreateAlgNoneJwt(payload, custom_header) ==
    IF ~JsonLoadsText(payload).ok THEN RetNone
    ELSE RetText(EncodePart(JDict(AlgNoneHeader(custom_header))) \o <<".">>
                 \o EncodePart(JsonLoadsText(payload).v) \o <<".">>)

\* the caller's dictionary after the call: header is that very object
\* unless it was None or empty
AlgNoneCallerHeader(payload, custom_header) ==
    IF JsonLoadsText(payload).ok /\ Truthy(custom_header)
    THEN JDict(AlgNoneHeader(custom_header))
    ELSE custom_header

(***************************************************************************)
(* PyJWT as the cracker and the forger call it                             *)
(***************************************************************************)
HmacAlgs == {"HS256", "HS384", "HS512"}

\* jwt.encode(payload, key, algorithm, headers): header.payload.signature
JwtEncode(payload, key, algorithm, headers) ==
    LET h == JsonSeg(JObject(headers))
        p == JsonSeg(payload)
    IN <<h, p, HmacSign(algorithm, key, <<h, p>>)>>

\* faulty variant: the cracker accepts every HMAC-SHA algorithm the header declares
AlgorithmsFromHeader == HmacAlgs

\* faulty variant: the algorithm name is misspelt and matches no header
AlgorithmsLowercase == {"hs256"}

\* algorithms=['HS256']
Algorithms == {"HS256"}

\* faulty variant: expiry is verified while cracking
VerifyExpOn == TRUE

\* options={"verify_exp": False, ...}
VerifyExp == FALSE

\* faulty variant: the signature is not compared at all
JwtDecodeNoVerify(tok, key) == "decoded"

\* jwt.decode(token, secret, algorithms=Algorithms, options=...): "decoded",
\* or the name of the exception it raises
JwtDecode(tok, key) ==
    IF Len(tok) # 3 THEN "DecodeError"
    ELSE LET h == tok[1]
             p == tok[2]
             sig == tok[3]
             hj == JsonLoads(SegText(h))
             pj == JsonLoads(SegText(p))
         IN IF ~Base64UrlDecodes(h) THEN "DecodeError"
            ELSE IF ~Utf8Decodes(h) \/ ~hj.ok THEN "DecodeError"
            ELSE IF ~IsDict(hj.v) THEN "DecodeError"
            ELSE IF ~Base64UrlDecodes(p) THEN "DecodeError"
            ELSE IF ~Base64UrlDecodes(sig) THEN "DecodeError"
            ELSE IF "alg" \notin DOMAIN hj.v.m THEN "InvalidAlgorithmError"
            ELSE IF hj.v.m.alg \notin Algorithms THEN "InvalidAlgorithmError"
            ELSE IF sig # HmacSign(hj.v.m.alg, key, <<h, p>>) THEN "InvalidSignatureError"
            ELSE IF ~Utf8Decodes(p) \/ ~pj.ok THEN "DecodeError"
            ELSE IF ~IsDict(pj.v) THEN "DecodeError"
            ELSE IF VerifyExp /\ "exp" \in DOMAIN pj.v.m /\ pj.v.m.exp = "past"
                 THEN "ExpiredSignatureError"
            ELSE "decoded"

(***************************************************************************)
(* forge_jwt without a custom header                                       *)
(***************************************************************************)
NoToken == <<>>

ForgeJwt(payload, secret, algorithm) ==
    IF ~JsonLoads(payload).ok THEN NoToken
    ELSE IF ~IsDict(JsonLoads(payload).v) THEN NoToken
    ELSE JwtEncode(JsonLoads(payload).v, secret, algorithm,
                   [alg |-> algorithm, typ |-> "JWT"])

(***************************************************************************)
(* The inputs of the model                                                 *)
(***************************************************************************)
\* signing secrets: plain ones, and ones with leading, trailing or only whitespace
SigningKeys ==
    { <<"a">>, <<"a", "a">>, <<" ", "a">>, <<"a", " ">>, <<" ", "a", " ">>, <<" ">> }

PlainPayload == JObject([user |-> "testuser"])
ExpiredPayload == JObject([user |-> "testuser", exp |-> "past"])
FreshPayload == JObject([user |-> "testuser", exp |-> "future"])
AdminPayload == JObject([user |-> "admin"])
Payloads == {PlainPayload, ExpiredPayload, FreshPayload}

ForgedTokens ==
    {ForgeJwt(JsonText(p), s, a) : p \in Payloads, s \in SigningKeys, a \in HmacAlgs}

BaseKey == <<"a">>
BaseToken == ForgeJwt(JsonText(PlainPayload), BaseKey, "HS256")

Resign(h, p, alg) == <<h, p, HmacSign(alg, BaseKey, <<h, p>>)>>

\* tokens no forger produced: wrong segment counts, undecodable segments,
\* non-object JSON, tampered or unsigned tokens
OtherTokens ==
    LET h == BaseToken[1]
        p == BaseToken[2]
        sig == BaseToken[3]
    IN { <<EmptySeg>>, <<h>>, <<h, p>>, <<h, p, sig, sig>>,
         <<EmptySeg, EmptySeg, EmptySeg>>,
         <<RawSeg("notb64"), p, sig>>, <<RawSeg("notutf8"), p, sig>>,
         <<RawSeg("notjson"), p, sig>>, <<JsonSeg(PyNone), p, sig>>,
         Resign(JsonSeg(JArray), p, "HS256"),
         Resign(h, RawSeg("notjson"), "HS256"),
         Resign(h, JsonSeg(JArray), "HS256"),
         Resign(h, JsonSeg(PyNone), "HS256"),
         <<h, JsonSeg(AdminPayload), sig>>,
         <<h, p, RawSeg("notb64")>>,
         <<h, p, EmptySeg>>,
         <<JsonSeg(JObject([alg |-> "none", typ |-> "JWT"])), p, EmptySeg>>,
         Resign(JsonSeg(JObject([typ |-> "JWT"])), p, "HS256"),
         Resign(h, p, "HS384") }

Tokens == ForgedTokens \cup OtherTokens

(***************************************************************************)
(* crack_jwt(token, wordlist_path): one invocation                         *)
(***************************************************************************)
VARIABLES
    token,       \* argument: the token to crack
    file,        \* the file at wordlist_path
    pc,          \* "start", "load", "scan", "done"
    wordlist,    \* the loaded candidates
    i,           \* 0-based index of the next candidate of the loop
    tried,       \* the secrets passed to jwt.decode so far, in call order
    total,       \* total of the progress task
    completed,   \* completed count of the progress task
    console,     \* what has been printed, in order
    result       \* the return value

\* the state of the callers of crack_jwt and of the other commands; one
\* invocation of crack_jwt leaves it alone
VARIABLES
    tokens,      \* crack_jwt_batch: the argument list
    bpc,         \* crack_jwt_batch: "idle", "start", "loop", "call", "returned"
    bi,          \* crack_jwt_batch: tokens handled so far
    results,     \* crack_jwt_batch: the dict token -> secret or None
    history,     \* one entry per finished crack_jwt invocation, in order
    bytesIn,     \* base64url_encode: the argument
    b64,         \* base64url_encode: the return value
    back,        \* base64url_decode of that: the return value
    arg_payload, \* create_alg_none_jwt: the payload argument
    arg_header,  \* create_alg_none_jwt: the caller's custom_header dictionary
    header0,     \* that dictionary as the caller built it, before any call
    jwt,         \* the token text given to, or made for, the decoders
    hdr,         \* decode_jwt_header(jwt): the return value
    pld,         \* decode_jwt_payload(jwt): the return value
    valid,       \* validate_jwt_format(jwt): "pending", "True" or "False"
    command,     \* main: args.command, "" when none was given
    forge_args,  \* main: payload, secret and algorithm of the forge command
    forged,      \* cmd_forge: the return value of forge_jwt
    cpc,         \* main: "idle", "start", "call", "exited"
    exit_code    \* the exit status of the process, NoCount while it runs

batchVars == <<tokens, bpc, bi, results, history>>

codecVars == <<bytesIn, b64, back, arg_payload, arg_header, header0, jwt, hdr, pld, valid>>

crackVars == <<token, file, pc, wordlist, i, tried, total, completed, console, result>>

cliVars == <<command, forge_args, forged, cpc, exit_code>>

aux == <<batchVars, codecVars, cliVars>>

vars == <<token, file, pc, wordlist, i, tried, total, completed, console, result, aux>>

\* the return value None, and "not returned yet"
ReturnNone == <<"None">>
NotReturned == <<"pending">>

NoCount == -1

Line(m) == [msg |-> m, secret |-> <<>>, attempts |-> NoCount, of |-> NoCount]
Panel(m, s, n, t) == [msg |-> m, secret |-> s, attempts |-> n, of |-> t]

PrintAll(out, msgs) == out \o [k \in 1..Len(msgs) |-> Line(msgs[k])]

\* faulty variant: the 0-based loop index is reported
AttemptNumberZeroBased(idx) == idx

\* Attempts: {i+1}/{len(wordlist)}
AttemptNumber(idx) == idx + 1

\* no batch is running
BatchIdle ==
    /\ tokens = <<>>
    /\ bpc = "idle"
    /\ bi = 0
    /\ results = <<>>
    /\ history = <<>>

\* a decoder's return value, or that it has not been called
NotDecoded == [done |-> FALSE, v |-> NoneValue]
Decoded(v) == [done |-> TRUE, v |-> v]

NotDecodedBytes == [done |-> FALSE, ok |-> FALSE, bytes |-> <<>>]
DecodedBytes(r) == [done |-> TRUE, ok |-> r.ok, bytes |-> r.bytes]

\* no codec call has been made
CodecIdle ==
    /\ bytesIn = <<>>
    /\ b64 = NotCalled
    /\ back = NotDecodedBytes
    /\ arg_payload = <<>>
    /\ arg_header = NoneValue
    /\ header0 = NoneValue
    /\ jwt = NotCalled
    /\ hdr = NotDecoded
    /\ pld = NotDecoded
    /\ valid = "pending"

NoForgeArgs == [payload |-> NotJsonText, secret |-> <<>>, algorithm |-> ""]

\* the command line interface is not in use
CliIdle ==
    /\ command = ""
    /\ forge_args = NoForgeArgs
    /\ forged = NoToken
    /\ cpc = "idle"
    /\ exit_code = NoCount

\* no crack_jwt invocation is running
CrackIdle ==
    /\ token = <<>>
    /\ file = MissingFile
    /\ pc = "done"
    /\ wordlist = <<>>
    /\ i = 0
    /\ tried = <<>>
    /\ total = 0
    /\ completed = 0
    /\ console = <<>>
    /\ result = NotReturned

Init ==
    /\ token \in Tokens
    /\ file \in Files
    /\ pc = "start"
    /\ wordlist = <<>>
    /\ i = 0
    /\ tried = <<>>
    /\ total = 0
    /\ completed = 0
    /\ console = <<>>
    /\ result = NotReturned
    /\ BatchIdle
    /\ CodecIdle
    /\ CliIdle

\* faulty variant: the format check is skipped
ValidateTokenSkipped ==
    /\ pc = "start"
    /\ pc' = "load"
    /\ UNCHANGED <<token, file, wordlist, i, tried, total, completed, console, result>>
    /\ UNCHANGED aux

\* faulty variant: the wordlist file is opened before the token is checked
ValidateTokenAfterOpen ==
    /\ pc = "start"
    /\ LET out == PrintAll(console, ReadWordlistPrints(file))
       IN IF ~ValidateJwtFormat(token)
          THEN /\ console' = Append(out, Line("invalid_format"))
               /\ result' = ReturnNone
               /\ pc' = "done"
          ELSE /\ console' = out
               /\ pc' = "load"
               /\ UNCHANGED result
    /\ UNCHANGED <<token, file, wordlist, i, tried, total, completed>>
    /\ UNCHANGED aux

\* if not validate_jwt_format(token): print, return None
ValidateToken ==
    /\ pc = "start"
    /\ IF ~ValidateJwtFormat(token)
       THEN /\ console' = Append(console, Line("invalid_format"))
            /\ result' = ReturnNone
            /\ pc' = "done"
       ELSE /\ pc' = "load"
            /\ UNCHANGED <<console, result>>
    /\ UNCHANGED <<token, file, wordlist, i, tried, total, completed>>
    /\ UNCHANGED aux

\* wordlist = read_wordlist(path); if not wordlist: print, return None;
\* otherwise print the count and add the progress task
LoadWordlist ==
    /\ pc = "load"
    /\ LET wl == ReadWordlist(file)
           out == PrintAll(console, ReadWordlistPrints(file))
       IN IF wl = <<>>
          THEN /\ console' = Append(out, Line("wordlist_failed_or_empty"))
               /\ result' = ReturnNone
               /\ pc' = "done"
               /\ UNCHANGED <<wordlist, total>>
          ELSE /\ console' = Append(out, Panel("loaded", <<>>, NoCount, Len(wl)))
               /\ wordlist' = wl
               /\ total' = Len(wl)
               /\ pc' = "scan"
               /\ UNCHANGED result
    /\ UNCHANGED <<token, file, i, tried, completed>>
    /\ UNCHANGED aux

\* faulty variant: a verified candidate is reported but the loop goes on
ScanStepNoStop ==
    /\ pc = "scan"
    /\ i < Len(wordlist)
    /\ LET secret == wordlist[i + 1]
           raised == JwtDecode(token, secret)
       IN /\ tried' = Append(tried, secret)
          /\ IF raised \in {"decoded", "ExpiredSignatureError"}
             THEN /\ console' = Append(console,
                        Panel("success", secret, AttemptNumber(i), Len(wordlist)))
                  /\ result' = secret
             ELSE UNCHANGED <<console, result>>
          /\ completed' = completed + 1
          /\ i' = i + 1
          /\ pc' = "scan"
    /\ UNCHANGED <<token, file, wordlist, total>>
    /\ UNCHANGED aux

\* faulty variant: an exception other than a signature mismatch ends the scan
ScanStepAbortOnError ==
    /\ pc = "scan"
    /\ i < Len(wordlist)
    /\ LET secret == wordlist[i + 1]
           raised == JwtDecode(token, secret)
       IN /\ tried' = Append(tried, secret)
          /\ IF raised = "decoded"
             THEN /\ completed' = completed + (i + 1)
                  /\ console' = Append(console,
                        Panel("success", secret, AttemptNumber(i), Len(wordlist)))
                  /\ result' = secret
                  /\ pc' = "done"
                  /\ UNCHANGED i
             ELSE IF raised = "InvalidSignatureError"
             THEN /\ completed' = completed + 1
                  /\ i' = i + 1
                  /\ UNCHANGED <<console, result, pc>>
             ELSE /\ result' = ReturnNone
                  /\ pc' = "done"
                  /\ UNCHANGED <<console, completed, i>>
    /\ UNCHANGED <<token, file, wordlist, total>>
    /\ UNCHANGED aux

\* faulty variant: the wordlist is scanned from its last line to its first
ScanStepFromEnd ==
    /\ pc = "scan"
    /\ i < Len(wordlist)
    /\ LET secret == wordlist[Len(wordlist) - i]
           raised == JwtDecode(token, secret)
       IN /\ tried' = Append(tried, secret)
          /\ IF raised = "decoded"
             THEN \* no exception: the success panel, return secret
                  /\ completed' = completed + (i + 1)
                  /\ console' = Append(console,
                        Panel("success", secret, AttemptNumber(i), Len(wordlist)))
                  /\ result' = secret
                  /\ pc' = "done"
                  /\ UNCHANGED i
             ELSE IF raised = "ExpiredSignatureError"
             THEN \* the expired-token success panel, return secret
                  /\ completed' = completed + (i + 1)
                  /\ console' = Append(console,
                        Panel("success_expired", secret, AttemptNumber(i), Len(wordlist)))
                  /\ result' = secret
                  /\ pc' = "done"
                  /\ UNCHANGED i
             ELSE \* InvalidSignatureError, DecodeError, any other Exception
                  /\ completed' = completed + 1
                  /\ i' = i + 1
                  /\ UNCHANGED <<console, result, pc>>
    /\ UNCHANGED <<token, file, wordlist, total>>
    /\ UNCHANGED aux

\* one iteration of `for i, secret in enumerate(wordlist)`
ScanStep ==
    /\ pc = "scan"
    /\ i < Len(wordlist)
    /\ LET secret == wordlist[i + 1]
           raised == JwtDecode(token, secret)
       IN /\ tried' = Append(tried, secret)
          /\ IF raised = "decoded"
             THEN \* no exception: the success panel, return secret
                  /\ completed' = completed + (i + 1)
                  /\ console' = Append(console,
                        Panel("success", secret, AttemptNumber(i), Len(wordlist)))
                  /\ result' = secret
                  /\ pc' = "done"
                  /\ UNCHANGED i
             ELSE IF raised = "ExpiredSignatureError"
             THEN \* the expired-token success panel, return secret
                  /\ completed' = completed + (i + 1)
                  /\ console' = Append(console,
                        Panel("success_expired", secret, AttemptNumber(i), Len(wordlist)))
                  /\ result' = secret
                  /\ pc' = "done"
                  /\ UNCHANGED i
             ELSE \* InvalidSignatureError, DecodeError, any other Exception
                  /\ completed' = completed + 1
                  /\ i' = i + 1
                  /\ UNCHANGED <<console, result, pc>>
    /\ UNCHANGED <<token, file, wordlist, total>>
    /\ UNCHANGED aux

\* faulty variant: the failure panel counts one candidate too few
ExhaustedOffByOne ==
    /\ pc = "scan"
    /\ i >= Len(wordlist)
    /\ console' = Append(console, Panel("failed", <<>>, Len(wordlist) - 1, NoCount))
    /\ result' = ReturnNone
    /\ pc' = "done"
    /\ UNCHANGED <<token, file, wordlist, i, tried, total, completed>>
    /\ UNCHANGED aux

\* faulty variant: at the end of the wordlist the scan starts over
ExhaustedStartsOver ==
    /\ pc = "scan"
    /\ i >= Len(wordlist)
    /\ i' = 0
    /\ tried' = <<>>
    /\ completed' = 0
    /\ UNCHANGED <<token, file, pc, wordlist, total, console, result>>
    /\ UNCHANGED aux

\* the loop ended without a return: the failure panel, return None
Exhausted ==
    /\ pc = "scan"
    /\ i >= Len(wordlist)
    /\ console' = Append(console, Panel("failed", <<>>, Len(wordlist), NoCount))
    /\ result' = ReturnNone
    /\ pc' = "done"
    /\ UNCHANGED <<token, file, wordlist, i, tried, total, completed>>
    /\ UNCHANGED aux

Next ==
    \/ ValidateToken
    \/ LoadWordlist
    \/ ScanStep
    \/ Exhausted

Spec == Init /\ [][Next]_vars

(***************************************************************************)
(* Reading a state                                                         *)
(***************************************************************************)
Done == pc = "done"

LastPrinted == console[Len(console)]

\* the terminal outcome of a finished invocation
Outcome ==
    IF ~Done \/ console = <<>> THEN "none"
    ELSE IF LastPrinted.msg = "invalid_format" THEN "Malformed"
    ELSE IF LastPrinted.msg = "wordlist_failed_or_empty" THEN "NoCandidates"
    ELSE IF LastPrinted.msg = "success" THEN "Match"
    ELSE IF LastPrinted.msg = "success_expired" THEN "MatchExpired"
    ELSE IF LastPrinted.msg = "failed" THEN "Exhausted"
    ELSE "none"

TypeOK ==
    /\ token \in Tokens
    /\ file \in Files
    /\ pc \in {"start", "load", "scan", "done"}
    /\ i \in 0..MaxWords
    /\ Len(tried) <= MaxWords
    /\ total \in 0..MaxWords
    /\ completed \in 0..(2 * MaxWords)

(***************************************************************************)
(* Vocabulary of the properties                                            *)
(***************************************************************************)
Range(q) == {q[k] : k \in 1..Len(q)}

\* the candidates of the file: its lines trimmed, empty ones dropped
Candidates == ReadWordlist(file)

FirstIndex(q, x) == CHOOSE k \in 1..Len(q) : q[k] = x /\ \A j \in 1..(k - 1) : q[j] # x

\* header and payload are JSON objects
IsJwt(tok) ==
    /\ Len(tok) = 3
    /\ IsDict(DecodeJwtHeader(tok))
    /\ IsDict(DecodeJwtPayload(tok))

\* S is the HS256 secret of tok: tok is a JWT whose header declares HS256 and
\* whose signature is HMAC-SHA256 of header.payload under S
IsSecretOf(tok, S) ==
    /\ IsJwt(tok)
    /\ "alg" \in DOMAIN DecodeJwtHeader(tok).m
    /\ DecodeJwtHeader(tok).m.alg = "HS256"
    /\ tok[3] = HmacSign("HS256", S, <<tok[1], tok[2]>>)

IsExpired(tok) ==
    /\ IsJwt(tok)
    /\ "exp" \in DOMAIN DecodeJwtPayload(tok).m
    /\ DecodeJwtPayload(tok).m.exp = "past"

\* the verifier accepted the candidate
Verifies(tok, S) == JwtDecode(tok, S) \in {"decoded", "ExpiredSignatureError"}

AllBlank(l) == \A j \in 1..Len(l) : IsSpace(l[j])

\* the file is missing, unreadable, empty, or has blank lines only
NoUsableLines(f) == f.status # "ok" \/ \A k \in 1..Len(f.lines) : AllBlank(f.lines[k])

(***************************************************************************)
(* Properties                                                              *)
(***************************************************************************)

\* C1: when the secret of the token is the candidate at position n (1-based,
\* after blank lines are dropped, first occurrence), crack_jwt returns it
\* with the success report, and the reported attempt number is n.
C1_MatchAtFirstPosition ==
    \A S \in Range(Candidates) :
        (Done /\ IsSecretOf(token, S))
        => /\ result = S
           /\ Outcome = "Match"
           /\ LastPrinted.secret = S
           /\ LastPrinted.attempts = FirstIndex(Candidates, S)

\* the secret is on the second line of a file whose first line is blank, and
\* is reported at position 1
C1_Witness ==
    /\ Done
    /\ Len(file.lines) = 2
    /\ AllBlank(file.lines[1])
    /\ \E S \in Range(Candidates) : IsSecretOf(token, S) /\ FirstIndex(Candidates, S) = 1
    /\ result = Candidates[1]
    /\ LastPrinted.attempts = 1

\* C2: first match wins: once a candidate passed to the verifier has
\* verified, no further candidate is ever passed to the verifier.
C2_FirstMatchWins ==
    [][(\E k \in 1..Len(tried) : Verifies(token, tried[k])) => tried' = tried]_vars

\* a match was found while candidates were left in the wordlist
C2_Witness ==
    /\ Done
    /\ Outcome = "Match"
    /\ Len(tried) < Len(wordlist)
    /\ Verifies(token, tried[Len(tried)])

\* C3: when no candidate is the secret of the token, crack_jwt returns None,
\* every candidate was passed to the verifier exactly once and in order, and
\* the failure report counts len(W) attempts.
C3_ExhaustedCountsAll ==
    (Done /\ ValidateJwtFormat(token) /\ \A S \in Range(Candidates) : ~IsSecretOf(token, S))
    => /\ result = ReturnNone
       /\ tried = Candidates
       /\ Candidates # <<>> => (Outcome = "Exhausted" /\ LastPrinted.attempts = Len(Candidates))

\* two wrong candidates against a signed HS256 token
C3_Witness ==
    /\ Done
    /\ Outcome = "Exhausted"
    /\ \E S \in SigningKeys : IsSecretOf(token, S)
    /\ Len(tried) = 2
    /\ tried[1] # tried[2]
    /\ LastPrinted.attempts = 2

\* C4: for a token whose exp is in the past and whose secret is a candidate,
\* crack_jwt ends with the expired-token success report and returns the secret.
C4_ExpiredReportedAsMatchExpired ==
    \A S \in Range(Candidates) :
        (Done /\ IsSecretOf(token, S) /\ IsExpired(token))
        => (Outcome = "MatchExpired" /\ result = S)

\* C5 as stated: for HS256, HS384 and HS512 alike, the forged token verifies
\* against its secret in the cracking path, so crack_jwt finds the secret
\* when it is a candidate.
C5_ForgedVerifiesAnyAlg ==
    \A p \in Payloads, S \in SigningKeys, a \in HmacAlgs :
        (Done /\ token = ForgeJwt(JsonText(p), S, a))
        => /\ JwtDecode(token, S) = "decoded"
           /\ S \in Range(Candidates) => result = S

\* C5 amended: a token forged with HS256, the one algorithm the cracking path
\* accepts, verifies against its secret, so crack_jwt finds the secret when
\* it is a candidate.
C5_ForgedVerifiesHS256 ==
    \A p \in Payloads, S \in SigningKeys :
        (Done /\ token = ForgeJwt(JsonText(p), S, "HS256"))
        => /\ JwtDecode(token, S) = "decoded"
           /\ S \in Range(Candidates) => result = S

\* a forged HS256 token cracked with its secret as the second candidate
C5_Witness ==
    /\ Done
    /\ \E p \in Payloads, S \in SigningKeys :
          /\ token = ForgeJwt(JsonText(p), S, "HS256")
          /\ Len(Candidates) = 2
          /\ Candidates[2] = S
          /\ Candidates[1] # S
          /\ result = S

\* C6: a token that fails validate_jwt_format ends the invocation at once:
\* None is returned, only the format diagnostic is printed, and no candidate
\* is ever passed to the verifier.
C6_MalformedStopsAtOnce ==
    ~ValidateJwtFormat(token)
    => /\ tried = <<>>
       /\ pc \in {"start", "done"}
       /\ Done => (result = ReturnNone /\ Outcome = "Malformed"
                   /\ console = <<Line("invalid_format")>>)

\* a three-segment token with an undecodable header, and a usable wordlist
C6_Witness ==
    /\ Done
    /\ Len(token) = 3
    /\ ~ValidateJwtFormat(token)
    /\ Len(Candidates) = 2
    /\ Outcome = "Malformed"

\* C7: with a well-formed token and a wordlist that is missing, unreadable,
\* empty or blank, crack_jwt returns None without a single verifier call.
C7_NoCandidatesNoCalls ==
    (ValidateJwtFormat(token) /\ NoUsableLines(file))
    => /\ tried = <<>>
       /\ pc \in {"start", "load", "done"}
       /\ Done => (result = ReturnNone /\ Outcome = "NoCandidates")

\* a file of two blank lines
C7_Witness ==
    /\ Done
    /\ ValidateJwtFormat(token)
    /\ file.status = "ok"
    /\ Len(file.lines) = 2
    /\ file.lines[2] # <<>>
    /\ NoUsableLines(file)
    /\ Outcome = "NoCandidates"

\* C8: a candidate the verifier rejects, with whatever exception, never ends
\* the scan: the loop moves on to the next candidate and nothing is returned.
C8_RejectedCandidateContinues ==
    [][(pc = "scan" /\ i < Len(wordlist) /\ ~Verifies(token, wordlist[i + 1]))
       => (pc' = "scan" /\ i' = i + 1 /\ result' = NotReturned
           /\ tried' = Append(tried, wordlist[i + 1]))]_vars

\* the secret was found after a rejected candidate
C8_Witness ==
    /\ Done
    /\ Outcome = "Match"
    /\ Len(tried) = 2
    /\ ~Verifies(token, tried[1])
    /\ result = tried[2]

\* C9: every report that carries an attempt count carries the number of
\* verifier calls made, the call that matched included, and at least 1.
C9_AttemptsEqualCalls ==
    (Done /\ Outcome \in {"Match", "MatchExpired", "Exhausted"})
    => /\ LastPrinted.attempts = Len(tried)
       /\ LastPrinted.attempts >= 1
       /\ \A k \in 1..Len(tried) : tried[k] = wordlist[k]

\* a success report after two verifier calls
C9_Witness ==
    /\ Done
    /\ Outcome = "Match"
    /\ Len(tried) = 2
    /\ LastPrinted.attempts = 2

\* C10: a token signed with a secret that has leading and trailing
\* whitespace, cracked with a wordlist holding that secret as a line, yields
\* the trimmed secret.
C10_WhitespaceSecretCracked ==
    \A S \in SigningKeys :
        (Done /\ IsSecretOf(token, S) /\ Strip(S) # S /\ Strip(S) # <<>>
              /\ file.status = "ok" /\ S \in Range(file.lines))
        => result = Strip(S)


(***************************************************************************)
(* crack_jwt_batch(tokens, wordlist_path)                                  *)
(***************************************************************************)
MaxBatch == 3          \* most tokens of one batch

\* crack_jwt as a function of its arguments: None for a token that fails the
\* format check or a wordlist without candidates, else the first candidate
\* that jwt.decode accepts, None when there is none
CrackJwt(t, f) ==
    IF ~ValidateJwtFormat(t) THEN ReturnNone
    ELSE LET wl == ReadWordlist(f)
             hits == {k \in 1..Len(wl) : JwtDecode(t, wl[k]) \in {"decoded", "ExpiredSignatureError"}}
         IN IF hits = {} THEN ReturnNone
            ELSE wl[CHOOSE k \in hits : \A j \in hits : k <= j]

\* the tokens and wordlist files of the batches: malformed, crackable at the
\* first and at the second candidate, signed with a secret no line yields
BatchTokens ==
    { <<EmptySeg>>,
      ForgeJwt(JsonText(PlainPayload), <<"a">>, "HS256"),
      ForgeJwt(JsonText(PlainPayload), <<"a", "a">>, "HS256"),
      ForgeJwt(JsonText(PlainPayload), <<"a", " ">>, "HS256") }

\* tokens of the runs: malformed ones, tokens crackable with a plain secret,
\* one whose secret no line yields, an expired one, one signed with HS384
ScanTokens ==
    BatchTokens
    \cup { <<BaseToken[1], BaseToken[2]>>,
           <<RawSeg("notjson"), BaseToken[2], BaseToken[3]>>,
           ForgeJwt(JsonText(ExpiredPayload), <<"a">>, "HS256"),
           ForgeJwt(JsonText(PlainPayload), <<"a">>, "HS384") }

BatchFiles ==
    { MissingFile,
      TextFile(<< <<"a">>, <<"a", "a">> >>),
      TextFile(<< <<"a", "a">>, <<" ">>, <<"a", " ">> >>),
      TextFile(<< <<"a", " ">> >>) }

InitBatch ==
    /\ tokens \in UNION {[1..n -> BatchTokens] : n \in 0..MaxBatch}
    /\ file \in BatchFiles
    /\ bpc = "start"
    /\ bi = 0
    /\ results = <<>>
    /\ history = <<>>
    /\ token = <<>>
    /\ pc = "done"
    /\ wordlist = <<>>
    /\ i = 0
    /\ tried = <<>>
    /\ total = 0
    /\ completed = 0
    /\ console = <<>>
    /\ result = NotReturned
    /\ CodecIdle
    /\ CliIdle

\* results = {}; the two opening lines
BatchStart ==
    /\ bpc = "start"
    /\ results' = <<>>
    /\ console' = PrintAll(console, <<"batch_start", "">>)
    /\ bpc' = "loop"
    /\ UNCHANGED <<tokens, bi, history>>
    /\ UNCHANGED <<codecVars, cliVars>>
    /\ UNCHANGED <<token, file, pc, wordlist, i, tried, total, completed, result>>

\* faulty variant: the callee runs on the loop state the previous call left
BatchCallStaleFrame ==
    /\ bpc = "loop"
    /\ bi < Len(tokens)
    /\ console' = Append(console, Panel("batch_token", <<>>, bi + 1, Len(tokens)))
    /\ token' = tokens[bi + 1]
    /\ pc' = "start"
    /\ result' = NotReturned
    /\ bpc' = "call"
    /\ UNCHANGED <<tokens, bi, results, history>>
    /\ UNCHANGED <<codecVars, cliVars>>
    /\ UNCHANGED <<file, wordlist, i, tried, total, completed>>

\* the loop header, the "Token i/n" line and the call crack_jwt(token,
\* wordlist_path): a new frame with fresh locals
BatchCall ==
    /\ bpc = "loop"
    /\ bi < Len(tokens)
    /\ console' = Append(console, Panel("batch_token", <<>>, bi + 1, Len(tokens)))
    /\ token' = tokens[bi + 1]
    /\ pc' = "start"
    /\ wordlist' = <<>>
    /\ i' = 0
    /\ tried' = <<>>
    /\ total' = 0
    /\ completed' = 0
    /\ result' = NotReturned
    /\ bpc' = "call"
    /\ UNCHANGED <<tokens, bi, results, history>>
    /\ UNCHANGED <<codecVars, cliVars>>
    /\ UNCHANGED file

\* faulty variant: a token that was not cracked gets no entry
BatchCollectFoundOnly ==
    /\ bpc = "call"
    /\ pc = "done"
    /\ results' = IF result = ReturnNone THEN results
                  ELSE [t \in DOMAIN results \cup {token} |->
                           IF t = token THEN result ELSE results[t]]
    /\ history' = Append(history, [token |-> token, result |-> result,
                                   tried |-> tried, printed |-> console[Len(console)]])
    /\ console' = Append(console, Line(""))
    /\ bi' = bi + 1
    /\ bpc' = "loop"
    /\ UNCHANGED tokens
    /\ UNCHANGED <<codecVars, cliVars>>
    /\ UNCHANGED <<token, file, pc, wordlist, i, tried, total, completed, result>>

\* crack_jwt returned: results[token] = result, the blank line
BatchCollect ==
    /\ bpc = "call"
    /\ pc = "done"
    /\ results' = [t \in DOMAIN results \cup {token} |->
                      IF t = token THEN result ELSE results[t]]
    /\ history' = Append(history, [token |-> token, result |-> result,
                                   tried |-> tried, printed |-> console[Len(console)]])
    /\ console' = Append(console, Line(""))
    /\ bi' = bi + 1
    /\ bpc' = "loop"
    /\ UNCHANGED tokens
    /\ UNCHANGED <<codecVars, cliVars>>
    /\ UNCHANGED <<token, file, pc, wordlist, i, tried, total, completed, result>>

\* the summary line, return results
BatchReturn ==
    /\ bpc = "loop"
    /\ bi >= Len(tokens)
    /\ LET successful_cracks == Cardinality({t \in DOMAIN results : results[t] # ReturnNone})
       IN console' = Append(console,
              Panel("batch_summary", <<>>, successful_cracks, Len(tokens)))
    /\ bpc' = "returned"
    /\ UNCHANGED <<tokens, bi, results, history>>
    /\ UNCHANGED <<codecVars, cliVars>>
    /\ UNCHANGED <<token, file, pc, wordlist, i, tried, total, completed, result>>

NextBatch ==
    \/ BatchStart
    \/ BatchCall
    \/ ValidateToken
    \/ LoadWordlist
    \/ ScanStep
    \/ Exhausted
    \/ BatchCollect
    \/ BatchReturn

SpecBatch == InitBatch /\ [][NextBatch]_vars

BatchReturned == bpc = "returned"

\* C11: the mapping a batch returns has exactly the tokens of the list as
\* keys, and maps each to what crack_jwt returns for that token and the
\* wordlist (None for a malformed or uncracked one); being a function of the
\* set of tokens and the wordlist it is the same for every order of the list
C11_BatchMapsEachTokenToItsCrack ==
    BatchReturned =>
        /\ DOMAIN results = Range(tokens)
        /\ \A t \in Range(tokens) : results[t] = CrackJwt(t, file)
        /\ \A k \in 1..Len(history) : history[k].result = CrackJwt(history[k].token, file)

\* a batch of three with a malformed token between two crackable ones returned
C11_Witness ==
    /\ BatchReturned
    /\ Len(tokens) = 3
    /\ ~ValidateJwtFormat(tokens[2])
    /\ results[tokens[2]] = ReturnNone
    /\ results[tokens[1]] # ReturnNone
    /\ results[tokens[3]] # ReturnNone
    /\ tokens[1] # tokens[3]

\* C12: two invocations of crack_jwt on the same token and the same wordlist
\* return the same secret or None after the same calls of the verifier and
\* print the same final panel, whatever ran between them
C12_SameInputsSameOutcome ==
    \A j, k \in 1..Len(history) :
        history[j].token = history[k].token =>
            /\ history[j].result = history[k].result
            /\ history[j].tried = history[k].tried
            /\ history[j].printed = history[k].printed

\* the same crackable token was cracked twice with a failed crack in between
C12_Witness ==
    /\ Len(history) = 3
    /\ history[1].token = history[3].token
    /\ history[1].result # ReturnNone
    /\ history[2].token # history[1].token
    /\ history[2].result = ReturnNone
    /\ history[2].tried # <<>>


(***************************************************************************)
(* A wordlist that cannot be read                                          *)
(***************************************************************************)
\* C13 as stated: crack_jwt, the caller of read_wordlist, gets something
\* else for a missing or unreadable file than for an existing file without
\* usable lines
C13_MissingFileToldApart ==
    (Done /\ ValidateJwtFormat(token) /\ file.status # "ok")
    => \A g \in Files :
          (g.status = "ok" /\ NoUsableLines(g)) => ReadWordlist(file) # ReadWordlist(g)

\* C13: a missing or unreadable wordlist raises nothing: read_wordlist
\* returns the empty list it returns for a file without usable lines, and
\* crack_jwt ends both ways with the same message, None and no verifier
\* call; the one difference is the line read_wordlist itself prints first
\* ("not found" for a missing file, "error reading" for an unreadable one)
C13_MissingFileReadsAsEmpty ==
    (Done /\ ValidateJwtFormat(token) /\ NoUsableLines(file))
    => /\ ReadWordlist(file) = <<>>
       /\ result = ReturnNone
       /\ tried = <<>>
       /\ LastPrinted = Line("wordlist_failed_or_empty")
       /\ (file.status = "ok" => Len(console) = 1)
       /\ (file.status = "missing" =>
             (Len(console) = 2 /\ console[1] = Line("wordlist_not_found")))
       /\ (file.status = "unreadable" =>
             (Len(console) = 2 /\ console[1] = Line("wordlist_read_error")))

\* crack_jwt returned for a well-formed token and a missing wordlist
C13_Witness ==
    /\ Done
    /\ ValidateJwtFormat(token)
    /\ file = MissingFile
    /\ result = ReturnNone
    /\ Len(console) = 2


(***************************************************************************)
(* base64url_encode and base64url_decode on byte strings                   *)
(***************************************************************************)
MaxBytes == 3          \* longest byte string encoded

\* bytes whose 6-bit groups reach the digits 62 and 63 ('-' and '_') as
\* well as letters and digits
ByteValues == {0, 77, 251, 255}

ByteStrings == UNION {[1..n -> ByteValues] : n \in 0..MaxBytes}

InitB64 ==
    /\ bytesIn \in ByteStrings
    /\ b64 = NotCalled
    /\ back = NotDecodedBytes
    /\ arg_payload = <<>>
    /\ arg_header = NoneValue
    /\ header0 = NoneValue
    /\ jwt = NotCalled
    /\ hdr = NotDecoded
    /\ pld = NotDecoded
    /\ valid = "pending"
    /\ BatchIdle
    /\ CrackIdle
    /\ CliIdle

\* encoded = base64url_encode(data)
EncodeBytes ==
    /\ ~b64.done
    /\ b64' = RetText(Base64UrlEncode(bytesIn))
    /\ UNCHANGED <<bytesIn, back, arg_payload, arg_header, header0, jwt, hdr, pld, valid>>
    /\ UNCHANGED <<batchVars, crackVars, cliVars>>

\* decoded = base64url_decode(encoded)
DecodeEncoded ==
    /\ b64.done
    /\ ~back.done
    /\ back' = DecodedBytes(Base64UrlDecode(b64.text))
    /\ UNCHANGED <<bytesIn, b64, arg_payload, arg_header, header0, jwt, hdr, pld, valid>>
    /\ UNCHANGED <<batchVars, crackVars, cliVars>>

NextB64 ==
    \/ EncodeBytes
    \/ DecodeEncoded

SpecB64 == InitB64 /\ [][NextB64]_vars

IsB64UrlChar(c) == c \in {"-", "_"} \/ (IsB64Char(c) /\ c \notin {"+", "/"})

\* C20: the encoded text has base64url characters only, no '=' and never a
\* length of 1 modulo 4, and decoding it gives back the bytes that were
\* encoded, for each length modulo 3
C20_Base64UrlRoundTrip ==
    /\ b64.done =>
          /\ \A k \in 1..Len(b64.text) : IsB64UrlChar(b64.text[k])
          /\ Len(b64.text) = 4 * (Len(bytesIn) \div 3)
                + (IF Len(bytesIn) % 3 = 0 THEN 0 ELSE (Len(bytesIn) % 3) + 1)
    /\ back.done => (back.ok /\ back.bytes = bytesIn)

\* two bytes, both with 6-bit groups beyond the letters and digits, went
\* through three characters and back
C20_Witness ==
    /\ back.done
    /\ bytesIn = <<251, 255>>
    /\ b64.text = <<"-", "_", "8">>
    /\ back.bytes = <<251, 255>>


(***************************************************************************)
(* The decoders and validate_jwt_format on token text                      *)
(***************************************************************************)
\* segments, each with what base64url_decode and json.loads make of it
Seg ==
    [
      \* {}
      object |-> <<"e", "3", "0">>,
      \* {"a":1}
      objectA |-> <<"e", "y", "J", "h", "I", "j", "o", "x", "f", "Q">>,
      \* []
      array |-> <<"W", "1", "0">>,
      \* null
      null |-> <<"b", "n", "V", "s", "b", "A">>,
      \* 0
      zero |-> <<"M", "A">>,
      \* ""
      string |-> <<"I", "i", "I">>,
      \* true
      true |-> <<"d", "H", "J", "1", "Z", "Q">>,
      \* the byte 0xFF
      notUtf8 |-> <<"_", "w">>,
      \* nothing: one character is no base64
      oneChar |-> <<"e">>,
      \* "{} " once b64decode has dropped the '!'
      bang |-> <<"e", "3", "0", "g", "!">>,
      \* {} once b64decode has dropped the four '!'
      bangs |-> <<"!", "!", "!", "!", "e", "3", "0">>,
      \* nothing: the '!' is counted when the padding is computed
      bangShort |-> <<"e", "3", "0", "!">>,
      \* {}, with the padding character written out
      padded |-> <<"e", "3", "0", "=">>,
      \* the bytes "sig"
      sig |-> <<"c", "2", "l", "n">>
    ]

HeaderSegs ==
    { Seg.object, Seg.objectA, Seg.array, Seg.null, Seg.zero, Seg.string, Seg.true,
      Seg.notUtf8, Seg.oneChar, Seg.bang, Seg.bangs, Seg.bangShort, Seg.padded, <<>> }

PayloadSegs == { Seg.object, Seg.array, Seg.null, Seg.zero, Seg.notUtf8, Seg.bang, Seg.bangShort }

SignatureSegs == { <<>>, Seg.sig, <<"!">>, Seg.oneChar }

Join3(h, p, sig) == h \o <<".">> \o p \o <<".">> \o sig

\* token texts of zero to three dots from the segments, and some of four parts
TokenTexts ==
    { <<>>, Seg.object, <<".">>, Seg.object \o <<".">> \o Seg.object,
      Join3(Seg.object, Seg.object, Seg.sig) \o <<".">> \o Seg.sig,
      <<".", ".", ".">> }
    \cup { Join3(h, p, sig) : h \in HeaderSegs, p \in PayloadSegs, sig \in SignatureSegs }

InitValidate ==
    /\ jwt \in {RetText(t) : t \in TokenTexts}
    /\ hdr = NotDecoded
    /\ pld = NotDecoded
    /\ valid = "pending"
    /\ bytesIn = <<>>
    /\ b64 = NotCalled
    /\ back = NotDecodedBytes
    /\ arg_payload = <<>>
    /\ arg_header = NoneValue
    /\ header0 = NoneValue
    /\ BatchIdle
    /\ CrackIdle
    /\ CliIdle

HaveToken == jwt.done /\ ~jwt.none

\* header = decode_jwt_header(token)
DecodeHeaderCall ==
    /\ HaveToken
    /\ ~hdr.done
    /\ hdr' = Decoded(DecodeJwtHeaderText(jwt.text))
    /\ UNCHANGED <<bytesIn, b64, back, arg_payload, arg_header, header0, jwt, pld, valid>>
    /\ UNCHANGED <<batchVars, crackVars, cliVars>>

\* payload = decode_jwt_payload(token)
DecodePayloadCall ==
    /\ HaveToken
    /\ ~pld.done
    /\ pld' = Decoded(DecodeJwtPayloadText(jwt.text))
    /\ UNCHANGED <<bytesIn, b64, back, arg_payload, arg_header, header0, jwt, hdr, valid>>
    /\ UNCHANGED <<batchVars, crackVars, cliVars>>

\* validate_jwt_format(token)
ValidateCall ==
    /\ HaveToken
    /\ valid = "pending"
    /\ valid' = IF ValidateJwtFormatText(jwt.text) THEN "True" ELSE "False"
    /\ UNCHANGED <<bytesIn, b64, back, arg_payload, arg_header, header0, jwt, hdr, pld>>
    /\ UNCHANGED <<batchVars, crackVars, cliVars>>

NextValidate ==
    \/ DecodeHeaderCall
    \/ DecodePayloadCall
    \/ ValidateCall

SpecValidate == InitValidate /\ [][NextValidate]_vars

\* the segments of the token at hand
Parts == Split(jwt.text, ".")

HasForeignChar(seg) == \E k \in 1..Len(seg) : ~IsB64UrlChar(seg[k])

\* a segment decodes: base64url, then UTF-8, then JSON
SegmentLoads(seg) ==
    IF ~Base64UrlDecode(seg).ok THEN NotLoaded
    ELSE IF ~Utf8Decode(Base64UrlDecode(seg).bytes).ok THEN NotLoaded
    ELSE JsonLoadsText(Utf8Decode(Base64UrlDecode(seg).bytes).text)

Validated == valid # "pending"

\* C15: validate_jwt_format is false for a token of fewer or more than
\* three segments, the empty string included, and for a token of three
\* segments one of which has a character outside the base64url alphabet
C15_RejectsForeignCharacters ==
    (Validated /\ (Len(Parts) # 3 \/ \E n \in 1..3 : HasForeignChar(Parts[n])))
    => valid = "False"

\* C16 as stated: validate_jwt_format is true exactly when the token has
\* three segments and header and payload both decode (base64url, UTF-8,
\* JSON), whatever the signature segment is
C16_ValidIffBothDecode ==
    Validated =>
        /\ valid = "True" <=> (/\ Len(Parts) = 3
                               /\ SegmentLoads(Parts[1]).ok
                               /\ SegmentLoads(Parts[2]).ok)
        /\ Len(Parts) = 3 =>
              \A sig \in SignatureSegs :
                  ValidateJwtFormatText(Join3(Parts[1], Parts[2], sig)) = (valid = "True")

\* C16: validate_jwt_format is true exactly when the token has three
\* segments and header and payload both decode (base64url, UTF-8, JSON) to
\* a value other than null, whatever the signature segment is
C16_ValidIffBothDecodeToNonNull ==
    Validated =>
        /\ valid = "True" <=> (/\ Len(Parts) = 3
                               /\ SegmentLoads(Parts[1]).ok
                               /\ SegmentLoads(Parts[1]).v.t # "None"
                               /\ SegmentLoads(Parts[2]).ok
                               /\ SegmentLoads(Parts[2]).v.t # "None")
        /\ Len(Parts) = 3 =>
              \A sig \in SignatureSegs :
                  ValidateJwtFormatText(Join3(Parts[1], Parts[2], sig)) = (valid = "True")

\* a token whose header is the JSON text null was rejected
C16_Witness ==
    /\ valid = "False"
    /\ Len(Parts) = 3
    /\ Parts[1] = Seg.null
    /\ SegmentLoads(Parts[1]).ok
    /\ SegmentLoads(Parts[2]).ok
    /\ SegmentLoads(Parts[2]).v.t = "dict"

\* C17: header and payload of every token validate_jwt_format accepts
\* decode to a JSON object
C17_AcceptedDecodeToObjects ==
    valid = "True" =>
        /\ DecodeJwtHeaderText(jwt.text).t = "dict"
        /\ DecodeJwtPayloadText(jwt.text).t = "dict"


(***************************************************************************)
(* create_alg_none_jwt and the decoders on the token it makes              *)
(***************************************************************************)
\* payload arguments: JSON objects (empty, plain, with blanks and a repeated
\* key, with an escaped quote), JSON that is no object, the constant NaN
\* (which json.loads reads) alone and in an object, and text that is not JSON
PayloadTexts ==
    {
      <<"N", "a", "N">>,
      <<"{", "\"", "a", "\"", ":", "N", "a", "N", "}">>,
      <<"{", "}">>,
      <<"{", "\"", "u", "s", "e", "r", "\"", ":", "\"", "a", "d", "m", "i", "n", "\"", "}">>,
      <<" ", "{", " ", "\"", "a", "\"", " ", ":", " ", "1", " ", ",", " ", "\"", "a", "\"", " ", ":", " ", "[", "2", ",", " ", "n", "u", "l", "l", "]", " ", "}", " ">>,
      <<"{", "\"", "s", "\"", ":", "\"", "a", "\\", "\"", "b", "\"", "}">>,
      <<"[", "1", "]">>,
      <<"n", "u", "l", "l">>,
      <<"{", "\"", "a", "\"", ":">>,
      <<>>
    }

\* custom_header arguments: None, the empty dictionary, and dictionaries
\* with and without alg and typ
CustomHeaders ==
    {
      NoneValue,
      JDict(<<>>),
      JDict(<<Item(<<"a", "l", "g">>, JStr(<<"H", "S", "2", "5", "6">>))>>),
      JDict(<<Item(<<"t", "y", "p">>, JStr(<<"X">>))>>),
      JDict(<<Item(<<"a", "l", "g">>, JStr(<<"H", "S", "2", "5", "6">>)), Item(<<"t", "y", "p">>, JStr(<<"X">>)), Item(<<"k", "i", "d">>, JStr(<<"1">>))>>),
      JDict(<<Item(<<"k", "i", "d">>, JStr(<<"k">>)), Item(<<"n">>, JInt(5))>>),
      JDict(<<Item(<<"a", "l", "g">>, JStr(<<"n", "o", "n", "e">>)), Item(<<"t", "y", "p">>, JStr(<<"J", "W", "T">>))>>)
    }

InitAlgNone ==
    /\ arg_payload \in PayloadTexts
    /\ arg_header \in CustomHeaders
    /\ header0 = arg_header
    /\ jwt = NotCalled
    /\ hdr = NotDecoded
    /\ pld = NotDecoded
    /\ valid = "pending"
    /\ bytesIn = <<>>
    /\ b64 = NotCalled
    /\ back = NotDecodedBytes
    /\ BatchIdle
    /\ CrackIdle
    /\ CliIdle

\* token = create_alg_none_jwt(payload, custom_header), with what it prints
\* and what it does to the caller's dictionary
CreateAlgNoneCall ==
    /\ ~jwt.done
    /\ jwt' = CreateAlgNoneJwt(arg_payload, arg_header)
    /\ arg_header' = AlgNoneCallerHeader(arg_payload, arg_header)
    /\ console' = IF CreateAlgNoneJwt(arg_payload, arg_header).none
                  THEN PrintAll(console, <<"invalid_json_payload">>)
                  ELSE PrintAll(console, <<"alg_none_created", "header", "payload">>)
    /\ UNCHANGED <<bytesIn, b64, back, arg_payload, header0, hdr, pld, valid>>
    /\ UNCHANGED <<batchVars, cliVars>>
    /\ UNCHANGED <<token, file, pc, wordlist, i, tried, total, completed, result>>

NextAlgNone ==
    \/ CreateAlgNoneCall
    \/ DecodeHeaderCall
    \/ DecodePayloadCall
    \/ ValidateCall

SpecAlgNone == InitAlgNone /\ [][NextAlgNone]_vars

\* the keys of the dictionary the caller built; none for None
GivenKeys == {header0.kv[k].k : k \in 1..Len(header0.kv)}

\* C18: whatever custom header the caller supplies, one with "alg": "HS256"
\* included, the token made has exactly three segments, the third of them
\* empty, ends with '.', and its decoded header is an object whose alg is
\* "none"
C18_AlgNoneOverridesAndLeavesNoSignature ==
    /\ HaveToken =>
          /\ Len(Parts) = 3
          /\ Parts[3] = <<>>
          /\ jwt.text[Len(jwt.text)] = "."
    /\ hdr.done =>
          /\ hdr.v.t = "dict"
          /\ DictHas(hdr.v.kv, KeyAlg)
          /\ DictGet(hdr.v.kv, KeyAlg) = StrNone

\* the caller asked for HS256 and the header of the token says none
C18_Witness ==
    /\ hdr.done
    /\ header0.t = "dict"
    /\ DictHas(header0.kv, KeyAlg)
    /\ DictGet(header0.kv, KeyAlg) = JStr(<<"H", "S", "2", "5", "6">>)
    /\ DictGet(hdr.v.kv, KeyAlg) = StrNone
    /\ Parts[3] = <<>>

\* C19: the decoded payload of the token made from the text of a JSON
\* object P is the parsed P; its decoded header has every key of the
\* custom header H other than alg with the value H gave it, and has typ
\* "JWT" exactly when H has no typ of its own
C19_AlgNoneRoundTrip ==
    /\ (pld.done /\ JsonLoadsText(arg_payload).v.t = "dict") =>
          pld.v = JsonLoadsText(arg_payload).v
    /\ hdr.done =>
          /\ \A key \in GivenKeys \ {KeyAlg} :
                /\ DictHas(hdr.v.kv, key)
                /\ DictGet(hdr.v.kv, key) = DictGet(header0.kv, key)
          /\ KeyTyp \notin GivenKeys => DictGet(hdr.v.kv, KeyTyp) = StrJWT
          /\ Len(hdr.v.kv) = Cardinality(GivenKeys \cup {KeyAlg, KeyTyp})

\* header and payload of a token made from a payload with a repeated key
\* and a header with its own typ and a kid were both decoded
C19_Witness ==
    /\ hdr.done
    /\ pld.done
    /\ Len(pld.v.kv) = 1
    /\ pld.v.kv[1].v.t = "list"
    /\ KeyTyp \in GivenKeys
    /\ DictGet(hdr.v.kv, KeyTyp) = JStr(<<"X">>)
    /\ DictHas(hdr.v.kv, <<"k", "i", "d">>)


(***************************************************************************)
(* The command line: main and cmd_crack, cmd_forge, cmd_alg_none           *)
(***************************************************************************)
\* bool(v) of a decoded header or payload of the cracker's tokens
TruthyDecoded(v) ==
    IF v.t = "object" THEN DOMAIN v.m # {} ELSE FALSE

\* pretty_print_jwt on a forged token: the line or table it prints
PrettyPrintJwt(tok) ==
    IF Len(tok) # 3 THEN "invalid_format"
    ELSE IF ~TruthyDecoded(DecodeJwtHeader(tok)) \/ ~TruthyDecoded(DecodeJwtPayload(tok))
    THEN "failed_to_decode"
    ELSE "table"

\* pretty_print_jwt on token text
PrettyPrintJwtText(jwtText) ==
    IF Len(Split(jwtText, ".")) # 3 THEN "invalid_format"
    ELSE IF ~Truthy(DecodeJwtHeaderText(jwtText)) \/ ~Truthy(DecodeJwtPayloadText(jwtText))
    THEN "failed_to_decode"
    ELSE "table"

\* `if result:` on the return value of crack_jwt
ResultTruthy(r) == r # ReturnNone /\ r # <<>>

Commands == {"", "crack", "forge", "alg-none"}

ForgeArgs ==
    { [payload |-> p, secret |-> <<"a">>, algorithm |-> a] :
        p \in {JsonText(PlainPayload), JsonText(JObject(<<>>)), JsonText(JArray), NotJsonText},
        a \in {"HS256", "HS384"} }

\* the process after parse_args
InitCli ==
    /\ command \in Commands
    /\ cpc = "start"
    /\ exit_code = NoCount
    /\ forged = NoToken
    /\ IF command = "crack"
       THEN token \in ScanTokens /\ file \in Files
       ELSE token = <<>> /\ file = MissingFile
    /\ IF command = "forge"
       THEN forge_args \in ForgeArgs
       ELSE forge_args = NoForgeArgs
    /\ IF command = "alg-none"
       THEN arg_payload \in PayloadTexts
       ELSE arg_payload = <<>>
    /\ arg_header = NoneValue
    /\ header0 = NoneValue
    /\ jwt = NotCalled
    /\ hdr = NotDecoded
    /\ pld = NotDecoded
    /\ valid = "pending"
    /\ bytesIn = <<>>
    /\ b64 = NotCalled
    /\ back = NotDecodedBytes
    /\ pc = "done"
    /\ wordlist = <<>>
    /\ i = 0
    /\ tried = <<>>
    /\ total = 0
    /\ completed = 0
    /\ console = <<>>
    /\ result = NotReturned
    /\ BatchIdle

\* print_banner(); no command: print_help() and return
MainNoCommand ==
    /\ cpc = "start"
    /\ command = ""
    /\ console' = PrintAll(console, <<"banner", "help">>)
    /\ exit_code' = 0
    /\ cpc' = "exited"
    /\ UNCHANGED <<command, forge_args, forged>>
    /\ UNCHANGED <<batchVars, codecVars>>
    /\ UNCHANGED <<token, file, pc, wordlist, i, tried, total, completed, result>>

\* print_banner(); cmd_crack: the opening lines, then crack_jwt is called
CmdCrackBegin ==
    /\ cpc = "start"
    /\ command = "crack"
    /\ console' = PrintAll(console, <<"banner", "starting_crack", "token", "wordlist", "">>)
    /\ pc' = "start"
    /\ wordlist' = <<>>
    /\ i' = 0
    /\ tried' = <<>>
    /\ total' = 0
    /\ completed' = 0
    /\ result' = NotReturned
    /\ cpc' = "call"
    /\ UNCHANGED <<command, forge_args, forged, exit_code>>
    /\ UNCHANGED <<batchVars, codecVars>>
    /\ UNCHANGED <<token, file>>

\* faulty variant: the command reports success whatever crack_jwt returned
CmdCrackEndAlwaysSuccess ==
    /\ cpc = "call"
    /\ command = "crack"
    /\ pc = "done"
    /\ console' = Append(console, Panel("cli_success", result, NoCount, NoCount))
    /\ exit_code' = 0
    /\ cpc' = "exited"
    /\ UNCHANGED <<command, forge_args, forged>>
    /\ UNCHANGED <<batchVars, codecVars>>
    /\ UNCHANGED <<token, file, pc, wordlist, i, tried, total, completed, result>>

\* crack_jwt returned: SUCCESS with the secret or FAILED; main returns
CmdCrackEnd ==
    /\ cpc = "call"
    /\ command = "crack"
    /\ pc = "done"
    /\ console' = IF ResultTruthy(result)
                  THEN Append(console, Panel("cli_success", result, NoCount, NoCount))
                  ELSE Append(console, Line("cli_failed_no_secret"))
    /\ exit_code' = 0
    /\ cpc' = "exited"
    /\ UNCHANGED <<command, forge_args, forged>>
    /\ UNCHANGED <<batchVars, codecVars>>
    /\ UNCHANGED <<token, file, pc, wordlist, i, tried, total, completed, result>>

\* print_banner(); cmd_forge: the opening lines
CmdForgeBegin ==
    /\ cpc = "start"
    /\ command = "forge"
    /\ console' = PrintAll(console, <<"banner", "forging", "payload", "secret", "">>)
    /\ cpc' = "call"
    /\ UNCHANGED <<command, forge_args, forged, exit_code>>
    /\ UNCHANGED <<batchVars, codecVars>>
    /\ UNCHANGED <<token, file, pc, wordlist, i, tried, total, completed, result>>

\* forge_jwt(payload, secret, algorithm) with what it prints, then the
\* token and pretty_print_jwt, or the failure line; main returns
CmdForgeEnd ==
    /\ cpc = "call"
    /\ command = "forge"
    /\ LET tok == ForgeJwt(forge_args.payload, forge_args.secret, forge_args.algorithm)
       IN /\ forged' = tok
          /\ console' =
                IF tok = NoToken
                THEN PrintAll(console,
                        <<IF JsonLoads(forge_args.payload).ok
                          THEN "error_forging" ELSE "invalid_json_payload",
                          "cli_forge_failed">>)
                ELSE PrintAll(console,
                        <<"forged", "algorithm", "secret", "cli_forge_success",
                          "cli_token", "", PrettyPrintJwt(tok)>>)
    /\ exit_code' = 0
    /\ cpc' = "exited"
    /\ UNCHANGED <<command, forge_args>>
    /\ UNCHANGED <<batchVars, codecVars>>
    /\ UNCHANGED <<token, file, pc, wordlist, i, tried, total, completed, result>>

\* print_banner(); cmd_alg_none: the opening lines
CmdAlgNoneBegin ==
    /\ cpc = "start"
    /\ command = "alg-none"
    /\ console' = PrintAll(console, <<"banner", "creating_alg_none", "payload", "">>)
    /\ cpc' = "call"
    /\ UNCHANGED <<command, forge_args, forged, exit_code>>
    /\ UNCHANGED <<batchVars, codecVars>>
    /\ UNCHANGED <<token, file, pc, wordlist, i, tried, total, completed, result>>

\* create_alg_none_jwt(payload) with what it prints, then the token and
\* pretty_print_jwt, or the failure line; main returns
CmdAlgNoneEnd ==
    /\ cpc = "call"
    /\ command = "alg-none"
    /\ LET made == CreateAlgNoneJwt(arg_payload, NoneValue)
       IN /\ jwt' = made
          /\ console' =
                IF made.none
                THEN PrintAll(console, <<"invalid_json_payload", "cli_alg_none_failed">>)
                ELSE PrintAll(console,
                        <<"alg_none_created", "header", "payload", "cli_alg_none_success",
                          "cli_token", "", PrettyPrintJwtText(made.text)>>)
    /\ exit_code' = 0
    /\ cpc' = "exited"
    /\ UNCHANGED <<command, forge_args, forged>>
    /\ UNCHANGED batchVars
    /\ UNCHANGED <<bytesIn, b64, back, arg_payload, arg_header, header0, hdr, pld, valid>>
    /\ UNCHANGED <<token, file, pc, wordlist, i, tried, total, completed, result>>

\* except KeyboardInterrupt: the user interrupts a running command
Interrupted ==
    /\ cpc = "call"
    /\ console' = Append(console, Line("cancelled_by_user"))
    /\ exit_code' = 1
    /\ cpc' = "exited"
    /\ UNCHANGED <<command, forge_args, forged>>
    /\ UNCHANGED <<batchVars, codecVars>>
    /\ UNCHANGED <<token, file, pc, wordlist, i, tried, total, completed, result>>

\* crack_jwt runs only while the command that called it does
CrackStep ==
    /\ cpc = "call"
    /\ \/ ValidateToken
       \/ LoadWordlist
       \/ ScanStep
       \/ Exhausted

NextCli ==
    \/ MainNoCommand
    \/ CmdCrackBegin
    \/ CrackStep
    \/ CmdCrackEnd
    \/ CmdForgeBegin
    \/ CmdForgeEnd
    \/ CmdAlgNoneBegin
    \/ CmdAlgNoneEnd
    \/ Interrupted

SpecCli == InitCli /\ [][NextCli]_vars

Exited == cpc = "exited"

\* the lines the commands print when they fail as expected
FailureDiagnostics == {"cli_failed_no_secret", "cli_forge_failed", "cli_alg_none_failed"}

\* the line of a command that succeeded
SuccessReports == {"cli_success", "cli_forge_success", "cli_alg_none_success"}

HasPrinted(msgs) == \E k \in 1..Len(console) : console[k].msg \in msgs

\* C14: a process that ends on an expected failure (no secret found, or a
\* payload the forge or alg-none command cannot use) has printed the
\* diagnostic and exits with a non-zero status; one that ends on success has
\* printed the secret or token and exits with zero
C14_ExpectedFailureExitsNonZero ==
    Exited =>
        /\ HasPrinted(FailureDiagnostics) => exit_code # 0
        /\ HasPrinted(SuccessReports) => exit_code = 0

(***************************************************************************)
(* crack_jwt run to its end: nothing interrupts the invocation, so a step   *)
(* that can be taken is taken                                              *)
(***************************************************************************)
InitScan ==
    /\ token \in ScanTokens
    /\ file \in Files
    /\ pc = "start"
    /\ wordlist = <<>>
    /\ i = 0
    /\ tried = <<>>
    /\ total = 0
    /\ completed = 0
    /\ console = <<>>
    /\ result = NotReturned
    /\ BatchIdle
    /\ CodecIdle
    /\ CliIdle

SpecScan == InitScan /\ [][Next]_vars /\ WF_vars(Next)

\* read_wordlist has returned
WordlistRead == pc = "scan" \/ (Done /\ Outcome # "Malformed")

\* the lines of the file that are not blank, by position
KeptLines == {k \in 1..Len(file.lines) : ~AllBlank(file.lines[k])}

\* how many kept lines the file has up to and including line k
Rank(k) == Cardinality({j \in KeptLines : j <= k})

\* w is l without its leading and trailing whitespace
IsTrimOf(w, l) ==
    \E a \in 1..(Len(l) + 1), b \in 0..Len(l) :
        /\ w = SubSeq(l, a, b)
        /\ \A j \in 1..(a - 1) : IsSpace(l[j])
        /\ \A j \in (b + 1)..Len(l) : IsSpace(l[j])
        /\ w # <<>> => (~IsSpace(w[1]) /\ ~IsSpace(w[Len(w)]))

\* C21: the list read_wordlist returns for a readable file holds, for each
\* line that is not blank and in file order, that line without its leading
\* and trailing whitespace, repeated lines repeated, and nothing else: a
\* blank line neither becomes a candidate nor moves the others.
C21_WordlistIsTrimmedNonBlankLines ==
    (WordlistRead /\ file.status = "ok")
    => /\ Len(wordlist) = Cardinality(KeptLines)
       /\ \A k \in KeptLines : IsTrimOf(wordlist[Rank(k)], file.lines[k])
       /\ \A n \in 1..Len(wordlist) : wordlist[n] # <<>>

\* two lines, padded on different sides, that trim to the same candidate
C21_Witness ==
    /\ WordlistRead
    /\ file.status = "ok"
    /\ Len(file.lines) = 2
    /\ file.lines[1] # file.lines[2]
    /\ Len(wordlist) = 2
    /\ wordlist[1] = wordlist[2]
    /\ file.lines[1] # wordlist[1]
    /\ file.lines[2] # wordlist[2]

(***************************************************************************)
(* decode_jwt_header and decode_jwt_payload on segments that are not       *)
(* base64url                                                               *)
(***************************************************************************)
\* the segment has a character that is neither of the base64url alphabet
\* nor the padding character
NotBase64Url(seg) == \E k \in 1..Len(seg) : ~IsB64UrlChar(seg[k]) /\ seg[k] # "="

\* what the claim expects of a decoder for part n of the token at hand
ExpectedOfPart(n) ==
    IF Len(Parts) # 3 \/ NotBase64Url(Parts[n]) \/ ~SegmentLoads(Parts[n]).ok
    THEN NoneValue
    ELSE SegmentLoads(Parts[n]).v

\* C22: decode_jwt_header returns None when the token has not exactly three
\* segments or its first segment is not base64url of UTF-8 JSON, and the
\* decoded value otherwise; decode_jwt_payload does the same with the
\* second segment
C22_DecodersFailOnInvalidSegments ==
    /\ hdr.done => hdr.v = ExpectedOfPart(1)
    /\ pld.done => pld.v = ExpectedOfPart(2)

(***************************************************************************)
(* A payload that is not JSON                                              *)
(***************************************************************************)
\* the value holds NaN, Infinity or -Infinity: constants json.loads reads
\* and the JSON grammar does not have
RECURSIVE HasNonJsonConstant(_)
HasNonJsonConstant(v) ==
    IF v.t = "float"
    THEN v.s \in { <<"N", "a", "N">>,
                   <<"I", "n", "f", "i", "n", "i", "t", "y">>,
                   <<"-", "I", "n", "f", "i", "n", "i", "t", "y">> }
    ELSE \E k \in 1..Len(v.kv) : HasNonJsonConstant(v.kv[k].v)

\* the text is a JSON text
IsJsonText(text) ==
    /\ JsonLoadsText(text).ok
    /\ ~HasNonJsonConstant(JsonLoadsText(text).v)

\* C23: create_alg_none_jwt given a payload string that is not valid JSON
\* returns None, having printed the invalid-payload line, and makes no token
C23_InvalidJsonPayloadYieldsNone ==
    (jwt.done /\ ~IsJsonText(arg_payload))
    => /\ jwt.none
       /\ console = <<Line("invalid_json_payload")>>

(***************************************************************************)
(* The order of the scan                                                   *)
(***************************************************************************)
\* C24: candidates go to the verifier strictly in wordlist order and each
\* position once: a verifier call is always on the candidate right after
\* those already tried, and is made only when every candidate tried before
\* was found not to match.
C24_VerifiedInWordlistOrder ==
    [][tried' # tried
       => /\ Len(tried) < Len(wordlist)
          /\ tried' = Append(tried, wordlist[Len(tried) + 1])
          /\ tried = SubSeq(wordlist, 1, Len(tried))
          /\ \A k \in 1..Len(tried) : ~Verifies(token, tried[k])]_vars

\* the scan is between the first candidate, rejected, and the second, which
\* is another word and the secret
C24_Witness ==
    /\ pc = "scan"
    /\ Len(wordlist) = 2
    /\ tried = <<wordlist[1]>>
    /\ wordlist[1] # wordlist[2]
    /\ Verifies(token, wordlist[2])

(***************************************************************************)
(* The end of an invocation                                                *)
(***************************************************************************)
\* the reports that end an invocation
TerminalReports ==
    {"invalid_format", "wordlist_failed_or_empty", "success", "success_expired", "failed"}

TerminalOutcomes == {"Malformed", "NoCandidates", "Match", "MatchExpired", "Exhausted"}

\* the positions of the console that hold a terminal report
TerminalLines == {k \in 1..Len(console) : console[k].msg \in TerminalReports}

\* C25: every invocation of crack_jwt that is not interrupted ends; until it
\* ends no terminal report is printed, and when it has ended exactly one
\* was, as the last line, naming one of Malformed, no candidates, Match,
\* MatchExpired and Exhausted; a secret is returned with the two Match
\* outcomes and None with the others.
C25_TerminatesWithOneReport ==
    /\ <>Done
    /\ [](~Done => (TerminalLines = {} /\ result = NotReturned))
    /\ [](Done => /\ TerminalLines = {Len(console)}
                  /\ Outcome \in TerminalOutcomes
                  /\ (result # ReturnNone) <=> (Outcome \in {"Match", "MatchExpired"}))

\* the run ended on a missing file: two lines were printed, one of them the
\* terminal report
C25_Witness ==
    /\ Done
    /\ file.status = "missing"
    /\ Len(console) = 2
    /\ TerminalLines = {2}
    /\ Outcome = "NoCandidates"

(***************************************************************************)
(* Validation before loading                                               *)
(***************************************************************************)
\* what read_wordlist and the loading step of crack_jwt print
LoadingLines == {"wordlist_not_found", "wordlist_read_error", "wordlist_failed_or_empty", "loaded"}

\* some line on the console carries an attempt count or an elapsed time
\* (the success and failure panels do)
ReportsAttempts ==
    \E k \in 1..Len(console) :
        \/ console[k].attempts # NoCount
        \/ console[k].msg \in {"success", "success_expired", "failed"}

\* C26: the token is validated before the wordlist is read: nothing of the
\* wordlist is printed or loaded except by the step after a passed
\* validation; a malformed token ends with the malformed-token diagnostic
\* alone, a missing wordlist included; and an invocation that ends on a
\* malformed token or on a missing, unreadable or empty wordlist has
\* printed no attempt count and no elapsed time.
C26_ValidationPrecedesLoading ==
    /\ [][(wordlist' # wordlist
           \/ \E k \in 1..Len(console') : k > Len(console) /\ console'[k].msg \in LoadingLines)
          => (pc = "load" /\ ValidateJwtFormat(token))]_vars
    /\ []((Done /\ ~ValidateJwtFormat(token)) => console = <<Line("invalid_format")>>)
    /\ []((Done /\ Outcome \in {"Malformed", "NoCandidates"}) => ~ReportsAttempts)

\* a malformed token with a missing wordlist: the one diagnostic
C26_Witness ==
    /\ Done
    /\ ~ValidateJwtFormat(token)
    /\ file.status = "missing"
    /\ Len(console) = 1
    /\ Outcome = "Malformed"

(***************************************************************************)
(* The progress task                                                       *)
(***************************************************************************)
\* C27: throughout a scan the completed count of the progress task is at
\* most its total, len(wordlist), and is the number of candidates tested so
\* far; after a match at 0-based index i it is i+1, the attempt count of
\* the success report.
C27_ProgressCountsCandidates ==
    /\ completed <= total
    /\ completed = Len(tried)
    /\ (Done /\ Outcome \in {"Match", "MatchExpired"}) => completed = LastPrinted.attempts

(***************************************************************************)
(* The return value of crack_jwt and the test cmd_crack makes on it        *)
(***************************************************************************)
\* crack_jwt has returned to cmd_crack
CrackReturned == command = "crack" /\ pc = "done" /\ result # NotReturned

\* C28: what crack_jwt returns is None or a string of the loaded wordlist
\* that is not empty and has no whitespace at either end; so cmd_crack,
\* which tests the truth of the result, prints SUCCESS with the secret
\* exactly when a secret was returned and FAILED exactly when None was.
C28_ReturnIsNoneOrCandidate ==
    /\ CrackReturned =>
          \/ result = ReturnNone
          \/ /\ result \in Range(wordlist)
             /\ result # <<>>
             /\ ~IsSpace(result[1])
             /\ ~IsSpace(result[Len(result)])
    /\ (Exited /\ CrackReturned /\ exit_code = 0) =>
          /\ HasPrinted({"cli_success"}) <=> result # ReturnNone
          /\ HasPrinted({"cli_failed_no_secret"}) <=> result = ReturnNone
          /\ result # ReturnNone => LastPrinted.secret = result

\* the command reported the secret it found on a line with trailing
\* whitespace
C28_Witness ==
    /\ Exited
    /\ CrackReturned
    /\ HasPrinted({"cli_success"})
    /\ result # ReturnNone
    /\ \E k \in 1..Len(file.lines) : file.lines[k] # result /\ Strip(file.lines[k]) = result

(***************************************************************************)
(* The caller's header dictionary                                          *)
(***************************************************************************)
\* C29: create_alg_none_jwt leaves the custom_header dictionary of its
\* caller as it was: after the call it has the keys and values the caller
\* gave it.
C29_CallerHeaderUnchanged ==
    jwt.done => arg_header = header0

(***************************************************************************)
(* pretty_print_jwt on the tokens the commands make                        *)
(***************************************************************************)
\* C30: pretty_print_jwt prints its decode-failure line only for a token
\* that validate_jwt_format rejects: every token the alg-none and forge
\* commands make, one with the empty payload {} included, is shown as the
\* table of header, payload and signature.
C30_MadeTokensAreRendered ==
    Exited =>
        /\ (command = "alg-none" /\ jwt.done /\ ~jwt.none) =>
              /\ ValidateJwtFormatText(jwt.text) => LastPrinted.msg = "table"
              /\ ~HasPrinted({"failed_to_decode"})
        /\ (command = "forge" /\ forged # NoToken) =>
              /\ ValidateJwtFormat(forged) => LastPrinted.msg = "table"
              /\ ~HasPrinted({"failed_to_decode"})

============================================================================
